---- MODULE Spec2Model ----
(***************************************************************************)
(* Verification model of the just-release pipeline: version resolution    *)
(* from git history, commit analysis, version bump calculation, the CLI   *)
(* entry point (dry-run / live / post-release) and the publish            *)
(* orchestrator with its JavaScript and Rust adapters.                    *)
(*                                                                         *)
(* Text is modelled as a sequence of tokens (words, punctuation, version  *)
(* strings) so that the regular expressions and prefix tests of the code  *)
(* are computed, not assumed.                                              *)
(***************************************************************************)
EXTENDS Integers, Sequences, FiniteSets, TLC

VARIABLES
  \* ---- the git repository
  history,      \* commits, oldest first; a commit is a key of CommitTable
  tags,         \* set of tag names (keys of TagTable)
  singles,      \* number of single commits made (bounded by MaxCommits)
  bulks,        \* number of bulk pushes made (bounded by MaxBulk)
  shallow,      \* git rev-parse --is-shallow-repository
  resolved,     \* result of resolveCurrentVersion on the current repository
  analyzed,     \* result of analyzeCommits on the current repository
  \* ---- calculateVersionBump(currentVersion, commits)
  bumpVersion,  \* currentVersion, parsed: <<major, minor, patch, prerelease>>
  bumpCommits,  \* commits: sequence of [type, breaking]
  bumpResult,   \* the VersionBumpResult, once computed
  \* ---- the workspace and publishAllPackages
  adapters,     \* active adapters (ecosystem types) in discovery order
  packages,     \* discovered packages: [name, ecosystem, private, deps]
  prereq,       \* per ecosystem: "ready" or the reason it is not
  unreadable,   \* names of the packages whose manifest cannot be read
  pubPc,        \* "idle", "loop", "publishing", "returned", "thrown"
  pubIdx,       \* position of publishAllPackages in adapters
  pubQueue,     \* names of the packages the current adapter publishes, in order
  pubPos,       \* loop index of the current adapter's publishPackages
  pubWaited,    \* Rust: the wait before pubQueue[pubPos] has returned
  pubResults,   \* results of the current adapter's publishPackages
  summaries,    \* the PublishSummary list
  execLog,      \* publish commands executed: [ecosystem, name, ok]
  waitLog,      \* waits for the crate index: [name, ok]
  \* ---- one run of the CLI (main)
  ci,           \* process.env.CI: "1" or "unset"
  githubToken,  \* process.env.GITHUB_TOKEN is set
  headIsMerge,  \* HEAD has two parents (the two commits before it in the log)
  mainPc,       \* the step main is at
  exitCode,     \* -1 while running, then the exit code of the process
  effects,      \* mutating and outward-facing actions performed so far
  stages,       \* pipeline steps that have succeeded
  runVersion,   \* workspace.rootVersion
  runCommits,   \* the analyzed commits
  runBump,      \* the versionBump
  \* ---- one call of waitForCrateIndexed
  waitPc,       \* "idle", "check", "sleep", "fetch", "returned", "thrown"
  waitNow,      \* Date.now() in ms since the call
  waitDelay,    \* delay
  waitDelays,   \* the delays slept before each poll so far
  waitAnswer,   \* the answer to the last poll
  \* ---- one call of generatePRSummary
  sumCommits,   \* the commits passed in
  sumResult,    \* the text returned, as its pieces in order
  \* ---- manifests on disk, discovery and updateAllVersions
  jsFiles,      \* package.json texts: the root, then the workspace members
  rustFiles,    \* Cargo.toml texts: the root, then the workspace members
  goFiles,      \* go.mod texts
  manBefore,    \* the texts before updateAllVersions
  manPkgs,      \* the packages discovery returned
  manDetected,  \* the detectedEcosystems discovery returned
  manVersion,   \* the version passed to updateAllVersions
  manPc,        \* "idle", "start", "discovered", "updated"
  \* ---- attribution of commits to packages and the CHANGELOG.md files
  clPkgs,       \* the workspace packages: [name, ecosystem, path]
  clFiles,      \* per package path: the CHANGELOG.md there, [exists, text]
  clBefore,     \* clFiles before the last generateChangelogs
  clCommits,    \* the CommitInfo list of the last analysis
  clDone,       \* number of releases whose changelogs are written
  clPc          \* "idle", "start", "analyzed", "written"

repoVars == <<history, tags, singles, bulks, shallow, resolved, analyzed>>

bumpVars == <<bumpVersion, bumpCommits, bumpResult>>

wsVars == <<adapters, packages, prereq, unreadable>>

pubVars == <<pubPc, pubIdx, pubQueue, pubPos, pubWaited, pubResults,
             summaries, execLog, waitLog>>

runVars == <<ci, githubToken, headIsMerge, mainPc, exitCode, effects, stages,
             runVersion, runCommits, runBump>>

waitVars == <<waitPc, waitNow, waitDelay, waitDelays, waitAnswer>>

\* the parts checked on their own
sumVars == <<sumCommits, sumResult>>

manVars == <<jsFiles, rustFiles, goFiles, manBefore, manPkgs, manDetected,
             manVersion, manPc>>

logVars == <<clPkgs, clFiles, clBefore, clCommits, clDone, clPc>>

toolVars == <<waitVars, sumVars, manVars, logVars>>

vars == <<repoVars, bumpVars, wsVars, pubVars, runVars, toolVars>>

\* what the actions of one part leave unchanged
notRepo == <<bumpVars, wsVars, pubVars, runVars, toolVars>>
notBump == <<repoVars, wsVars, pubVars, runVars, toolVars>>
notPub == <<repoVars, bumpVars, runVars, toolVars>>
notRun == <<repoVars, bumpVars, wsVars, toolVars>>
notWait == <<repoVars, bumpVars, wsVars, pubVars, runVars, sumVars, manVars, logVars>>
notSum == <<repoVars, bumpVars, wsVars, pubVars, runVars, waitVars, manVars, logVars>>
notMan == <<repoVars, bumpVars, wsVars, pubVars, runVars, waitVars, sumVars, logVars>>
notLog == <<repoVars, bumpVars, wsVars, pubVars, runVars, waitVars, sumVars, manVars>>

----------------------------------------------------------------------------
(* Bounds of the model *)
MaxCommits == 2
MaxBulk == 1
MaxTags == 2
MaxBumpCommits == 2
MaxRunCommits == 3
MaxDeps == 2

(* Program constants: the staged search depths *)
FirstStage == 100
SecondStage == 1000
INITIAL_DELAY_MS == 1000
MAX_DELAY_MS == 16000
TIMEOUT_MS == 120000
MaxFetchMs == 2000
FULL_DETAIL_LIMIT == 40000
SUMMARY_ONLY_LIMIT == 60000
MaxSummaryCommits == 3
MaxMembers == 1
MaxResolves == 2
MaxLogCommits == 2

----------------------------------------------------------------------------
(* Tokens *)

VersionToks == {"1.0.0", "1.1.0", "1.9.0", "1.10.0", "1.10.0-rc.1", "2.0.0"}

\* tokens made of word characters only (\w+)
WordToks == {"release", "released", "chore", "feat", "fix", "perf", "docs",
             "notes", "for", "add", "update", "explain", "api", "x", "v"}

\* does the token start / end with a word character (for \b)
StartsWithWordChar(t) == t \in WordToks \cup VersionToks

\* semver.parse of the version strings of the model:
\* <<major, minor, patch, prerelease rank>>; rank 0 = no prerelease
VerTuple(v) ==
  CASE v = "0.0.0"       -> <<0, 0, 0, 0>>
    [] v = "1.0.0"       -> <<1, 0, 0, 0>>
    [] v = "1.1.0"       -> <<1, 1, 0, 0>>
    [] v = "1.9.0"       -> <<1, 9, 0, 0>>
    [] v = "1.10.0"      -> <<1, 10, 0, 0>>
    [] v = "1.10.0-rc.1" -> <<1, 10, 0, 1>>
    [] v = "2.0.0"       -> <<2, 0, 0, 0>>

----------------------------------------------------------------------------
(* Commits of the model.  message is the subject line (simple-git %s),    *)
(* body the remaining lines (%b), files the paths `git show --name-only`  *)
(* lists.                                                                  *)

CommitTable ==
  [ rel        |-> [message |-> <<"release", ":", " ", "1.1.0">>,
                    body |-> <<>>],
    rel2       |-> [message |-> <<"release", ":", " ", "2.0.0">>,
                    body |-> <<>>],
    choreRel   |-> [message |-> <<"chore", ":", " ", "release", " ", "v", "1.9.0">>,
                    body |-> <<>>],
    relV       |-> [message |-> <<"release", " ", "v", "2.0.0">>,
                    body |-> <<>>],
    scopeRel   |-> [message |-> <<"chore", "(", "release", ")", ":", " ", "v", "1.10.0">>,
                    body |-> <<>>],
    docsRel    |-> [message |-> <<"docs", ":", " ", "release", " ", "notes", " ", "for", " ", "v", "1.0.0">>,
                    body |-> <<>>],
    feat       |-> [message |-> <<"feat", ":", " ", "add", " ", "x">>,
                    body |-> <<>>],
    fix        |-> [message |-> <<"fix", ":", " ", "x">>,
                    body |-> <<>>],
    featBang   |-> [message |-> <<"feat", "!", ":", " ", "x">>,
                    body |-> <<>>],
    scopeBang  |-> [message |-> <<"feat", "(", "api", ")", "!", ":", " ", "x">>,
                    body |-> <<>>],
    docsBang   |-> [message |-> <<"docs", ":", " ", "explain", " ", "feat", "!", ":", " ", "x">>,
                    body |-> <<>>],
    fixNote    |-> [message |-> <<"fix", ":", " ", "x">>,
                    body |-> << <<"BREAKING CHANGE", ":", " ", "x">> >>],
    chore      |-> [message |-> <<"chore", ":", " ", "x">>,
                    body |-> << <<"update", " ", "x">> >>],
    plain      |-> [message |-> <<"update", " ", "x">>,
                    body |-> <<>>] ]

Message(c) == CommitTable[c].message
Body(c) == CommitTable[c].body

----------------------------------------------------------------------------
(* release-commit.ts *)

\* /\brelease\b[\s:)]{0,3}v?\d+\.\d+\.\d+(?:\-[a-zA-Z0-9.]+)?/i matched at
\* token i with n separator tokens
ReleasePatternAt(msg, i, n) ==
  LET
    EndsWithWordChar(t) == t \in WordToks \cup VersionToks
  IN
  LET
    \* separator characters accepted by [\s:)] in the release pattern
    ReleaseSepToks == {" ", ":", ")"}
  IN
  /\ msg[i] = "release"
  /\ (i = 1 \/ ~EndsWithWordChar(msg[i - 1]))
  /\ i + n + 1 <= Len(msg)
  /\ \A k \in 1..n : msg[i + k] \in ReleaseSepToks
  /\ \/ /\ n > 0
        /\ msg[i + n + 1] \in VersionToks
     \/ /\ n > 0
        /\ i + n + 2 <= Len(msg)
        /\ msg[i + n + 1] = "v"
        /\ msg[i + n + 2] \in VersionToks

isReleaseCommit(msg) ==
  \E i \in 1..Len(msg) : \E n \in 0..3 : ReleasePatternAt(msg, i, n)

NoVersion == "null"

\* /v?(\d+\.\d+\.\d+(?:\-[a-zA-Z0-9.]+)?)/ : the first version in the text
extractVersionFromCommit(msg) ==
  IF ~isReleaseCommit(msg) THEN NoVersion
  ELSE LET idx == {i \in 1..Len(msg) : msg[i] \in VersionToks}
       IN IF idx = {} THEN NoVersion
          ELSE msg[CHOOSE i \in idx : \A j \in idx : i <= j]

----------------------------------------------------------------------------
(* simple-git *)

Min(a, b) == IF a <= b THEN a ELSE b

\* git.log({ maxCount }): the newest maxCount commits, newest first.  An
\* entry is the commit's hash, here its position in the history.
GitLog(h, maxCount) ==
  [k \in 1..Min(Len(h), maxCount) |-> Len(h) - k + 1]

\* git.log() without a limit
GitLogAll(h) == GitLog(h, Len(h))

\* LogResult.total: simple-git sets it to the number of entries returned
Total(log) == Len(log)

\* first position k >= from of the log (1-based) whose commit is one of
\* the commits S that satisfy the loop's test, 0 if none
FirstFrom(log, from, S) ==
  LET hits == {k \in from..Len(log) : log[k] \in S}
  IN IF hits = {} THEN 0 ELSE CHOOSE k \in hits : \A j \in hits : k <= j

----------------------------------------------------------------------------
(* git tags *)

TagTable ==
  [ v190      |-> <<"v", "1.9.0">>,
    v1100     |-> <<"v", "1.10.0">>,
    v1100rc1  |-> <<"v", "1.10.0-rc.1">>,
    plain200  |-> <<"2.0.0">>,
    nightly   |-> <<"nightly">> ]

\* tag.match(/^v?(\d+\.\d+\.\d+(?:-[a-zA-Z0-9.]+)?)$/): the captured version
TagMatch(t) ==
  LET tk == TagTable[t]
  IN IF Len(tk) = 1 /\ tk[1] \in VersionToks THEN tk[1]
     ELSE IF Len(tk) = 2 /\ tk[1] = "v" /\ tk[2] \in VersionToks THEN tk[2]
     ELSE NoVersion

\* lexicographic order on integer tuples of equal length
TupleLess(a, b) ==
  \E i \in 1..Len(a) :
    /\ a[i] < b[i]
    /\ \A j \in 1..(i - 1) : a[j] = b[j]

\* git's version sort (v:refname, no versionsort.suffix configured) compares
\* the refnames as strings with digit runs compared as numbers: a name that
\* starts with a digit sorts before one that starts with a letter, and of two
\* names with the same base version the one with a suffix sorts after.
GitSortKey(t) ==
  LET tk == TagTable[t]
  IN IF TagMatch(t) = NoVersion THEN <<1, 0, 0, 0, 0>>
     ELSE <<(IF tk[1] = "v" THEN 2 ELSE 0)>> \o VerTuple(TagMatch(t))

\* git.tags(['--sort=-v:refname']).all : descending version sort
RECURSIVE GitTagsSorted(_)
GitTagsSorted(S) ==
  IF S = {} THEN <<>>
  ELSE LET top == CHOOSE t \in S :
                    \A u \in S \ {t} : TupleLess(GitSortKey(u), GitSortKey(t))
       IN <<top>> \o GitTagsSorted(S \ {top})

----------------------------------------------------------------------------
(* version-source.ts *)

IsMarkerWithVersion(h, hash) ==
  /\ isReleaseCommit(Message(h[hash]))
  /\ extractVersionFromCommit(Message(h[hash])) # NoVersion

\* the hash of the commit the staged search stops at, 0 if it finds none
resolveReleaseCommit(h) ==
  LET P == {hash \in 1..Len(h) : IsMarkerWithVersion(h, hash)}
      log1 == GitLog(h, FirstStage)
      hit1 == FirstFrom(log1, 1, P)
      more2 == Total(log1) > FirstStage
      log2 == IF more2 THEN GitLog(h, SecondStage) ELSE log1
      hit2 == IF more2 THEN FirstFrom(log2, FirstStage + 1, P) ELSE 0
      more3 == Total(log2) > SecondStage
      log3 == IF more3 THEN GitLogAll(h) ELSE log2
      hit3 == IF more3 THEN FirstFrom(log3, SecondStage + 1, P) ELSE 0
  IN IF hit1 # 0 THEN log1[hit1]
     ELSE IF hit2 # 0 THEN log2[hit2]
     ELSE IF hit3 # 0 THEN log3[hit3]
     ELSE 0

resolveCurrentVersion(h, tg) ==
  LET marker == resolveReleaseCommit(h)
      sorted == GitTagsSorted(tg)
      ok == {k \in 1..Len(sorted) : TagMatch(sorted[k]) # NoVersion}
  IN IF marker # 0 THEN extractVersionFromCommit(Message(h[marker]))
     ELSE IF ok # {}
          THEN TagMatch(sorted[CHOOSE k \in ok : \A j \in ok : k <= j])
     ELSE "0.0.0"

----------------------------------------------------------------------------
(* conventional-commits-parser, default options *)

NoType == "null"

ScopeToks == WordToks \cup {" "}

\* parsed.notes.some(note => note.title === 'BREAKING CHANGE'): a line of the
\* body that starts with the note keyword
HasBreakingNote(body) ==
  \E l \in 1..Len(body) :
    /\ Len(body[l]) >= 2
    /\ body[l][1] = "BREAKING CHANGE"
    /\ body[l][2] \in {":", " "}

----------------------------------------------------------------------------
(* commits.ts *)

\* one CommitInfo
CommitInfoOf(h, hash) ==
  LET
    \* commit.message.includes('!:')
    IncludesBangColon(msg) ==
      \E i \in 1..(Len(msg) - 1) : msg[i] = "!" /\ msg[i + 1] = ":"
  IN
  LET
    \* parsed.type
    ParsedType(msg) ==
      LET
        \* headerPattern /^(\w*)(?:\(([\w$.\-*/ ]*)\))?: (.*)$/ : position of the
        \* ":" that ends the type and optional scope, 0 when the header does not match
        HeaderColon(header) ==
          IF Len(header) >= 3 /\ header[1] \in WordToks /\ header[2] = ":" /\ header[3] = " "
          THEN 2
          ELSE LET closes == {j \in 3..Len(header) :
                                /\ header[1] \in WordToks
                                /\ header[2] = "("
                                /\ header[j] = ")"
                                /\ \A k \in 3..(j - 1) : header[k] \in ScopeToks
                                /\ j + 2 <= Len(header)
                                /\ header[j + 1] = ":"
                                /\ header[j + 2] = " "}
               IN IF closes = {} THEN 0
                  ELSE 1 + CHOOSE j \in closes : \A k \in closes : j <= k
      IN
      IF HeaderColon(msg) = 0 THEN NoType ELSE msg[1]
  IN
  [ hash     |-> hash,
    type     |-> ParsedType(Message(h[hash])),
    breaking |-> HasBreakingNote(Body(h[hash]))
                   \/ IncludesBangColon(Message(h[hash])) ]

\* the log and the releaseIndex (position in the log, 0 for -1) the staged
\* fetch ends with
analyzeLog(h) ==
  LET
    \* c.message.startsWith('release: ')
    StartsWithRelease(msg) ==
      /\ Len(msg) >= 3
      /\ msg[1] = "release"
      /\ msg[2] = ":"
      /\ msg[3] = " "
  IN
  LET P == {hash \in 1..Len(h) : StartsWithRelease(Message(h[hash]))}
      log1 == GitLog(h, FirstStage)
      idx1 == FirstFrom(log1, 1, P)
      more2 == idx1 = 0 /\ Total(log1) > FirstStage
      log2 == IF more2 THEN GitLog(h, SecondStage) ELSE log1
      idx2 == IF more2 THEN FirstFrom(log2, 1, P) ELSE idx1
      more3 == idx2 = 0 /\ Total(log2) > SecondStage
      log3 == IF more3 THEN GitLogAll(h) ELSE log2
      idx3 == IF more3 THEN FirstFrom(log3, 1, P) ELSE idx2
  IN [log |-> log3, releaseIndex |-> idx3]

\* the hash of the commit the analyzer ends its range at, 0 if none
analyzeReleaseCommit(h) ==
  LET r == analyzeLog(h)
  IN IF r.releaseIndex = 0 THEN 0 ELSE r.log[r.releaseIndex]

\* a plausible slip: the range ends at the release commit, not before it
analyzeCommits_IncludesMarker(h) ==
  LET r == analyzeLog(h)
      endIndex == IF r.releaseIndex = 0 THEN Len(r.log) ELSE r.releaseIndex
  IN [k \in 1..endIndex |-> CommitInfoOf(h, r.log[endIndex - k + 1])]

\* the CommitInfo list returned: the log entries before releaseIndex, reversed
analyzeCommits(h) ==
  LET r == analyzeLog(h)
      endIndex == IF r.releaseIndex = 0 THEN Len(r.log) ELSE r.releaseIndex - 1
  IN [k \in 1..endIndex |-> CommitInfoOf(h, r.log[endIndex - k + 1])]

----------------------------------------------------------------------------
(* version.ts *)

NoBump == "null"
NoNewVersion == <<>>

\* semver.inc(version, release) for release in major, minor, patch
SemverInc(v, release) ==
  CASE release = "major" ->
         IF v[2] # 0 \/ v[3] # 0 \/ v[4] = 0
         THEN <<v[1] + 1, 0, 0, 0>> ELSE <<v[1], 0, 0, 0>>
    [] release = "minor" ->
         IF v[3] # 0 \/ v[4] = 0
         THEN <<v[1], v[2] + 1, 0, 0>> ELSE <<v[1], v[2], 0, 0>>
    [] release = "patch" ->
         IF v[4] = 0
         THEN <<v[1], v[2], v[3] + 1, 0>> ELSE <<v[1], v[2], v[3], 0>>

\* a plausible slip: features tested before breaking changes
calculateVersionBump_FeatFirst(currentVersion, commits) ==
  LET hasBreaking == \E i \in 1..Len(commits) : commits[i].breaking
      hasFeat == \E i \in 1..Len(commits) : commits[i].type = "feat"
      hasFix == \E i \in 1..Len(commits) : commits[i].type \in {"fix", "perf"}
      bumpType == IF hasFeat THEN "minor"
                  ELSE IF hasBreaking THEN "major"
                  ELSE IF hasFix THEN "patch"
                  ELSE NoBump
  IN IF Len(commits) = 0 \/ bumpType = NoBump
     THEN [bumpType |-> NoBump, newVersion |-> NoNewVersion]
     ELSE [bumpType |-> bumpType, newVersion |-> SemverInc(currentVersion, bumpType)]

calculateVersionBump(currentVersion, commits) ==
  LET hasBreaking == \E i \in 1..Len(commits) : commits[i].breaking
      hasFeat == \E i \in 1..Len(commits) : commits[i].type = "feat"
      hasFix == \E i \in 1..Len(commits) : commits[i].type \in {"fix", "perf"}
      bumpType == IF hasBreaking THEN "major"
                  ELSE IF hasFeat THEN "minor"
                  ELSE IF hasFix THEN "patch"
                  ELSE NoBump
  IN IF Len(commits) = 0 \/ bumpType = NoBump
     THEN [bumpType |-> NoBump, newVersion |-> NoNewVersion]
     ELSE [bumpType |-> bumpType, newVersion |-> SemverInc(currentVersion, bumpType)]

RECURSIVE SeqsUpTo(_, _)
SeqsUpTo(S, n) ==
  IF n = 0 THEN {<<>>}
  ELSE LET shorter == SeqsUpTo(S, n - 1)
       IN shorter \cup {Append(q, x) : q \in {r \in shorter : Len(r) = n - 1}, x \in S}

NotCalculated == [done |-> FALSE, bumpType |-> NoBump, newVersion |-> NoNewVersion]

BumpIdle ==
  /\ bumpVersion = <<0, 0, 0, 0>>
  /\ bumpCommits = <<>>
  /\ bumpResult = NotCalculated

BumpStart ==
  LET
    BumpCommitKinds ==
      LET
        BumpTypes == {"feat", "fix", "perf", "chore", "docs", NoType}
      IN
      [type : BumpTypes, breaking : BOOLEAN]
  IN
  LET
    \* inputs of the model
    BumpVersions ==
      {<<1, 0, 0, 0>>, <<1, 2, 3, 0>>, <<0, 0, 0, 0>>,
       <<2, 0, 0, 1>>, <<1, 2, 0, 1>>, <<1, 2, 3, 1>>}
  IN
  /\ bumpVersion \in BumpVersions
  /\ bumpCommits \in SeqsUpTo(BumpCommitKinds, MaxBumpCommits)
  /\ bumpResult = NotCalculated

CalculateVersionBump ==
  /\ ~bumpResult.done
  /\ bumpResult' =
       LET r == calculateVersionBump(bumpVersion, bumpCommits)
       IN [done |-> TRUE, bumpType |-> r.bumpType, newVersion |-> r.newVersion]
  /\ UNCHANGED <<bumpVersion, bumpCommits>>
  /\ UNCHANGED notBump

----------------------------------------------------------------------------
(* ecosystems/rust.ts: publish order *)

NamesOf(pkgs) == [i \in 1..Len(pkgs) |-> pkgs[i].name]

SeqToSet(q) == {q[i] : i \in 1..Len(q)}

\* deps.filter((d) => packageNames.has(d))
InternalDeps(pkgs, p) ==
  SelectSeq(p.deps, LAMBDA d : d \in SeqToSet(NamesOf(pkgs)))

\* dependents.get(dep): one entry per internal dependency edge, in the order
\* the dependency map is walked
RECURSIVE DependentsFrom(_, _, _)
DependentsFrom(pkgs, dep, i) ==
  IF i > Len(pkgs) THEN <<>>
  ELSE LET hits == SelectSeq(InternalDeps(pkgs, pkgs[i]), LAMBDA d : d = dep)
       IN [k \in 1..Len(hits) |-> pkgs[i].name] \o DependentsFrom(pkgs, dep, i + 1)

\* the inner loop over the dependents of the crate taken from the queue
RECURSIVE Relax(_, _, _, _)
Relax(ds, i, deg, queue) ==
  IF i > Len(ds) THEN [deg |-> deg, queue |-> queue]
  ELSE LET newDegree == deg[ds[i]] - 1
       IN Relax(ds, i + 1, [deg EXCEPT ![ds[i]] = newDegree],
                IF newDegree = 0 THEN Append(queue, ds[i]) ELSE queue)

\* while (queue.length > 0)
RECURSIVE KahnLoop(_, _, _, _)
KahnLoop(pkgs, queue, sorted, deg) ==
  IF queue = <<>> THEN sorted
  ELSE LET name == Head(queue)
           r == Relax(DependentsFrom(pkgs, name, 1), 1, deg, Tail(queue))
       IN KahnLoop(pkgs, r.queue, Append(sorted, name), r.deg)

\* the sort without the remainder left by a cycle
topologicalSortCrates_NoRemainder(pkgs) ==
  LET names == NamesOf(pkgs)
      inDegree == [n \in SeqToSet(names) |->
                     Len(InternalDeps(pkgs, pkgs[CHOOSE i \in 1..Len(pkgs) :
                                                  pkgs[i].name = n]))]
      queue == SelectSeq(names, LAMBDA n : inDegree[n] = 0)
      sorted == KahnLoop(pkgs, queue, <<>>, inDegree)
  IN sorted

\* topologicalSortCrates(packages, dependencyMap), as the names in order
topologicalSortCrates(pkgs) ==
  LET names == NamesOf(pkgs)
      inDegree == [n \in SeqToSet(names) |->
                     Len(InternalDeps(pkgs, pkgs[CHOOSE i \in 1..Len(pkgs) :
                                                  pkgs[i].name = n]))]
      queue == SelectSeq(names, LAMBDA n : inDegree[n] = 0)
      sorted == KahnLoop(pkgs, queue, <<>>, inDegree)
  IN sorted \o SelectSeq(names, LAMBDA n : n \notin SeqToSet(sorted))

----------------------------------------------------------------------------
(* publish.ts and the adapters' publishPackages *)

Pkg(n, e, priv, d) ==
  [name |-> n, ecosystem |-> e, private |-> priv, deps |-> d, devDeps |-> {}]

Keys(S) ==
  LET
    \* names in the order they are written in a manifest table
    KeyOrder == <<"a", "b", "c", "d", "serde">>
  IN
  SelectSeq(KeyOrder, LAMBDA n : n \in S)

\* parseCrateDependencies(cargoContent): the keys of [dependencies], then
\* those of [build-dependencies]; [dev-dependencies] is not read
parseCrateDependencies(cargo) ==
  Keys(cargo.dependencies) \o Keys(cargo.buildDependencies)

\* a public crate with its Cargo.toml dependency tables
Crate(n, cargo) ==
  [name |-> n, ecosystem |-> "rust", private |-> FALSE,
   deps |-> parseCrateDependencies(cargo), devDeps |-> cargo.devDependencies]

Cargo(d, bd, dd) ==
  [dependencies |-> d, buildDependencies |-> bd, devDependencies |-> dd]

SubsetsUpTo(S, n) == {T \in SUBSET S : Cardinality(T) <= n}

\* ALL_ADAPTERS order; an adapter is active when its manifest is detected
AdaptersOf(js, rs, go) ==
  (IF js # <<>> THEN <<"javascript">> ELSE <<>>) \o
  (IF rs # <<>> THEN <<"rust">> ELSE <<>>) \o
  (IF go # <<>> THEN <<"go">> ELSE <<>>)

PubIdle ==
  /\ pubPc = "idle"
  /\ pubIdx = 1
  /\ pubQueue = <<>>
  /\ pubPos = 1
  /\ pubWaited = FALSE
  /\ pubResults = <<>>
  /\ summaries = <<>>
  /\ execLog = <<>>
  /\ waitLog = <<>>

WsIdle ==
  /\ adapters = <<>>
  /\ packages = <<>>
  /\ prereq = [e \in {"javascript", "rust"} |-> "ready"]
  /\ unreadable = {}

WsStart ==
  LET
    PrereqStates == {"ready", "not installed", "token not set"}
  IN
  LET
    GoSets ==
      { <<>>,
        <<Pkg("mod", "go", FALSE, <<>>)>> }
  IN
  LET
    RustSets ==
      { <<>>,
        <<Pkg("core", "rust", FALSE, <<>>)>>,
        <<Pkg("core", "rust", TRUE, <<>>)>>,
        <<Pkg("core", "rust", FALSE, <<>>), Pkg("cli", "rust", FALSE, <<"core", "serde">>)>>,
        <<Pkg("cli", "rust", FALSE, <<"core">>), Pkg("core", "rust", FALSE, <<>>)>> }
  IN
  LET
    \* what each adapter can have discovered
    JsSets ==
      { <<>>,
        <<Pkg("web", "javascript", FALSE, <<>>)>>,
        <<Pkg("web", "javascript", TRUE, <<>>)>>,
        <<Pkg("web", "javascript", FALSE, <<>>), Pkg("ui", "javascript", FALSE, <<>>)>>,
        <<Pkg("web", "javascript", TRUE, <<>>), Pkg("ui", "javascript", FALSE, <<>>)>> }
  IN
  /\ \E js \in JsSets, rs \in RustSets, go \in GoSets :
       /\ adapters = AdaptersOf(js, rs, go)
       /\ packages = js \o rs \o go
       /\ unreadable \in {{}} \cup {{n} : n \in SeqToSet(NamesOf(js \o rs))}
  /\ prereq \in [{"javascript", "rust"} -> PrereqStates]

\* adapter.isPrivate(pkg.path): what the manifest says, and true when the
\* manifest cannot be read
isPrivate(p) == IF p.name \in unreadable THEN TRUE ELSE p.private

\* the filter with no package left out as private
Publishable_KeepsPrivate(a) ==
  SelectSeq(packages, LAMBDA p : p.ecosystem = a)

\* packages.filter(ecosystem), then the ones the adapter does not report private
Publishable(a) ==
  SelectSeq(packages, LAMBDA p : p.ecosystem = a /\ ~isPrivate(p))

\* the order in which the adapter's publishPackages takes the packages
PublishOrder(a) ==
  IF a = "rust" THEN topologicalSortCrates(Publishable(a))
  ELSE NamesOf(Publishable(a))

Skip(a, reason) ==
  [ecosystem |-> a, skipped |-> TRUE, skipReason |-> reason, results |-> <<>>]

InLoop == pubPc = "loop" /\ pubIdx <= Len(adapters)

\* if (adapter.type === 'go') continue
PublishSkipGo ==
  /\ InLoop
  /\ adapters[pubIdx] = "go"
  /\ pubIdx' = pubIdx + 1
  /\ UNCHANGED <<pubPc, pubQueue, pubPos, pubWaited, pubResults, summaries,
                 execLog, waitLog>>
  /\ UNCHANGED <<wsVars, notPub>>

\* prerequisites not met: record a skip with the reason
PublishSkipPrereq ==
  /\ InLoop
  /\ adapters[pubIdx] # "go"
  /\ prereq[adapters[pubIdx]] # "ready"
  /\ summaries' = Append(summaries,
                         Skip(adapters[pubIdx], prereq[adapters[pubIdx]]))
  /\ pubIdx' = pubIdx + 1
  /\ UNCHANGED <<pubPc, pubQueue, pubPos, pubWaited, pubResults, execLog, waitLog>>
  /\ UNCHANGED <<wsVars, notPub>>

\* nothing publishable: record a skip
PublishSkipPrivate ==
  /\ InLoop
  /\ adapters[pubIdx] # "go"
  /\ prereq[adapters[pubIdx]] = "ready"
  /\ Publishable(adapters[pubIdx]) = <<>>
  /\ summaries' = Append(summaries,
                         Skip(adapters[pubIdx], "No publishable packages (all private)"))
  /\ pubIdx' = pubIdx + 1
  /\ UNCHANGED <<pubPc, pubQueue, pubPos, pubWaited, pubResults, execLog, waitLog>>
  /\ UNCHANGED <<wsVars, notPub>>

\* adapter.publishPackages(rootPath, version, publishable, exec) is entered
PublishBegin ==
  /\ InLoop
  /\ adapters[pubIdx] # "go"
  /\ prereq[adapters[pubIdx]] = "ready"
  /\ Publishable(adapters[pubIdx]) # <<>>
  /\ pubQueue' = PublishOrder(adapters[pubIdx])
  /\ pubPos' = 1
  /\ pubWaited' = FALSE
  /\ pubResults' = <<>>
  /\ pubPc' = "publishing"
  /\ UNCHANGED <<pubIdx, summaries, execLog, waitLog>>
  /\ UNCHANGED <<wsVars, notPub>>

Publishing(a) ==
  /\ pubPc = "publishing"
  /\ adapters[pubIdx] = a
  /\ pubPos <= Len(pubQueue)

\* the publish loop without the break after a failure
PublishOne_NoBreak(a, ok) ==
  LET results == Append(pubResults, [packageName |-> pubQueue[pubPos], success |-> ok])
      ends == pubPos = Len(pubQueue)
  IN /\ execLog' = Append(execLog, [ecosystem |-> a, name |-> pubQueue[pubPos], ok |-> ok])
     /\ IF ends
        THEN /\ summaries' = Append(summaries,
                                    [ecosystem |-> a, skipped |-> FALSE,
                                     skipReason |-> "", results |-> results])
             /\ pubIdx' = pubIdx + 1
             /\ pubPc' = "loop"
             /\ pubResults' = <<>>
             /\ pubQueue' = <<>>
             /\ pubPos' = 1
        ELSE /\ pubResults' = results
             /\ pubPos' = pubPos + 1
             /\ UNCHANGED <<summaries, pubIdx, pubPc, pubQueue>>
     /\ pubWaited' = FALSE

\* one turn of the publish loop: run the command, record the result, and
\* leave the loop after a failure or after the last package
PublishOne(a, ok) ==
  LET results == Append(pubResults, [packageName |-> pubQueue[pubPos], success |-> ok])
      ends == ~ok \/ pubPos = Len(pubQueue)
  IN /\ execLog' = Append(execLog, [ecosystem |-> a, name |-> pubQueue[pubPos], ok |-> ok])
     /\ IF ends
        THEN /\ summaries' = Append(summaries,
                                    [ecosystem |-> a, skipped |-> FALSE,
                                     skipReason |-> "", results |-> results])
             /\ pubIdx' = pubIdx + 1
             /\ pubPc' = "loop"
             /\ pubResults' = <<>>
             /\ pubQueue' = <<>>
             /\ pubPos' = 1
        ELSE /\ pubResults' = results
             /\ pubPos' = pubPos + 1
             /\ UNCHANGED <<summaries, pubIdx, pubPc, pubQueue>>
     /\ pubWaited' = FALSE

\* JavaScriptAdapter.publishPackages: exec(command, args, { cwd: pkg.path })
JsPublish(ok) ==
  /\ Publishing("javascript")
  /\ PublishOne("javascript", ok)
  /\ UNCHANGED waitLog
  /\ UNCHANGED <<wsVars, notPub>>

\* RustAdapter.publishPackages: await waitForIndex(prev.name, version); a
\* timeout is thrown out of publishPackages and publishAllPackages
RustWait(ok) ==
  /\ Publishing("rust")
  /\ pubPos > 1
  /\ ~pubWaited
  /\ waitLog' = Append(waitLog, [name |-> pubQueue[pubPos - 1],
                                  version |-> runVersion, ok |-> ok])
  /\ IF ok
     THEN pubWaited' = TRUE /\ pubPc' = pubPc
     ELSE pubWaited' = FALSE /\ pubPc' = "thrown"
  /\ UNCHANGED <<pubIdx, pubQueue, pubPos, pubResults, summaries, execLog>>
  /\ UNCHANGED <<wsVars, notPub>>

\* the publish command issued without the wait for the previous crate
RustPublish_NoWait(ok) ==
  /\ Publishing("rust")
  /\ PublishOne("rust", ok)
  /\ UNCHANGED waitLog
  /\ UNCHANGED <<wsVars, notPub>>

\* RustAdapter.publishPackages: exec('cargo', ['publish', '-p', pkg.name])
RustPublish(ok) ==
  /\ Publishing("rust")
  /\ pubPos = 1 \/ pubWaited
  /\ PublishOne("rust", ok)
  /\ UNCHANGED waitLog
  /\ UNCHANGED <<wsVars, notPub>>

\* return summaries
PublishReturn ==
  /\ pubPc = "loop"
  /\ pubIdx > Len(adapters)
  /\ pubPc' = "returned"
  /\ UNCHANGED <<pubIdx, pubQueue, pubPos, pubWaited, pubResults, summaries,
                 execLog, waitLog>>
  /\ UNCHANGED <<wsVars, notPub>>

\* hasPublishFailures(summaries)
hasPublishFailures(ss) ==
  \E i \in 1..Len(ss) : \E j \in 1..Len(ss[i].results) : ~ss[i].results[j].success

----------------------------------------------------------------------------
(* ecosystems/rust.ts: waitForCrateIndexed *)

WaitIdle ==
  /\ waitPc = "idle"
  /\ waitNow = 0
  /\ waitDelay = INITIAL_DELAY_MS
  /\ waitDelays = <<>>
  /\ waitAnswer = "none"

\* const deadline = Date.now() + TIMEOUT_MS; let delay = INITIAL_DELAY_MS
WaitStart ==
  /\ waitPc = "check"
  /\ waitNow = 0
  /\ waitDelay = INITIAL_DELAY_MS
  /\ waitDelays = <<>>
  /\ waitAnswer = "none"

\* while (Date.now() < deadline), and the throw after the loop
WaitCheck ==
  /\ waitPc = "check"
  /\ waitPc' = IF waitNow < TIMEOUT_MS THEN "sleep" ELSE "thrown"
  /\ UNCHANGED <<waitNow, waitDelay, waitDelays, waitAnswer>>
  /\ UNCHANGED notWait

\* await new Promise((resolve) => setTimeout(resolve, delay))
WaitSleep ==
  /\ waitPc = "sleep"
  /\ waitNow' = waitNow + waitDelay
  /\ waitDelays' = Append(waitDelays, waitDelay)
  /\ waitPc' = "fetch"
  /\ UNCHANGED <<waitDelay, waitAnswer>>
  /\ UNCHANGED notWait

\* the poll with the delay doubled without a cap
WaitFetch_NoCap(answer, took) ==
  /\ waitPc = "fetch"
  /\ waitNow' = waitNow + took
  /\ waitAnswer' = answer
  /\ IF answer = "ok"
     THEN waitPc' = "returned" /\ UNCHANGED waitDelay
     ELSE waitPc' = "check" /\ waitDelay' = waitDelay * 2
  /\ UNCHANGED waitDelays
  /\ UNCHANGED notWait

\* the poll: response.ok returns; a non-OK response or a network error
\* doubles the delay up to MAX_DELAY_MS and goes round the loop
WaitFetch(answer, took) ==
  /\ waitPc = "fetch"
  /\ waitNow' = waitNow + took
  /\ waitAnswer' = answer
  /\ IF answer = "ok"
     THEN waitPc' = "returned" /\ UNCHANGED waitDelay
     ELSE waitPc' = "check" /\ waitDelay' = Min(waitDelay * 2, MAX_DELAY_MS)
  /\ UNCHANGED waitDelays
  /\ UNCHANGED notWait

----------------------------------------------------------------------------
(* formatting.ts: generatePRSummary *)

\* A text is the sequence of its pieces; a piece is what it is (kind), the
\* commit it renders (0 for none) and its length in UTF-16 code units.
Piece(k, c, n) == [kind |-> k, commit |-> c, len |-> n]

RECURSIVE TextLen(_)
TextLen(text) ==
  IF text = <<>> THEN 0 ELSE Head(text).len + TextLen(Tail(text))

HashLen == 40

\* getCommitPrefix(commit).length
PrefixLen(c) ==
  IF c.breaking THEN 13
  ELSE CASE c.type = "feat"  -> 2
         [] c.type = "fix"   -> 3
         [] c.type = "perf"  -> 2
         [] c.type = "docs"  -> 3
         [] c.type = "chore" -> 3
         [] OTHER            -> 2

\* getTypeLabel(type), and the label buildRemainderSuffix counts a commit under
TypeLabel(c) ==
  IF c.breaking THEN "breaking changes"
  ELSE CASE c.type = "feat"  -> "features"
         [] c.type = "fix"   -> "fixes"
         [] c.type = "perf"  -> "performance"
         [] c.type = "docs"  -> "docs"
         [] c.type = "chore" -> "chores"
         [] OTHER            -> "other"

\* String(n).length
Digits(n) == IF n < 10 THEN 1 ELSE IF n < 100 THEN 2 ELSE 3

\* c.subject ?? c.rawMessage
DescriptionLen(c) == IF c.subjectLen = -1 THEN c.rawLen ELSE c.subjectLen

\* formatCommitSummary(c): `- ${c.hash}: ${getCommitPrefix(c)}${description}`
formatCommitSummary(commits, i) ==
  <<Piece("line", i, 2 + HashLen + 2 + PrefixLen(commits[i]) + DescriptionLen(commits[i]))>>

\* the full entry with the body left out
formatCommitFull_NoBody(commits, i) ==
  formatCommitSummary(commits, i)

\* formatCommitFull(c): the line, then a blank line and the body with every
\* line indented by two, when the body has other than white space
formatCommitFull(commits, i) ==
  formatCommitSummary(commits, i) \o
  (IF commits[i].bodyLen > 0 /\ ~commits[i].bodyBlank
   THEN <<Piece("body", i, 2 + commits[i].bodyLen + 2 * commits[i].bodyLines)>>
   ELSE <<>>)

\* buildRemainderSuffix(remaining)
buildRemainderSuffix(commits, from) ==
  LET
    LabelLen(l) ==
      CASE l = "breaking changes" -> 16
        [] l = "features"         -> 8
        [] l = "fixes"            -> 5
        [] l = "performance"      -> 11
        [] l = "docs"             -> 4
        [] l = "chores"           -> 6
        [] l = "other"            -> 5
  IN
  LET rest == from..Len(commits)
      labels == {TypeLabel(commits[i]) : i \in rest}
      count(l) == Cardinality({i \in rest : TypeLabel(commits[i]) = l})
      part(l) == Digits(count(l)) + 1 + LabelLen(l)
      RECURSIVE SumParts(_)
      SumParts(L) ==
        IF L = {} THEN 0
        ELSE LET l == CHOOSE x \in L : TRUE IN part(l) + SumParts(L \ {l})
  IN <<Piece("suffix", 0,
             10 + Digits(Cardinality(rest)) + 15 + SumParts(labels)
               + 2 * (Cardinality(labels) - 1) + 2)>>

\* Phase 1: full detail while the text stays within FULL_DETAIL_LIMIT
RECURSIVE Phase1(_, _, _)
Phase1(commits, i, result) ==
  IF i > Len(commits) THEN [i |-> i, result |-> result]
  ELSE LET addition == (IF result # <<>> THEN <<Piece("blank", 0, 2)>> ELSE <<>>)
                         \o formatCommitFull(commits, i)
       IN IF TextLen(result) + TextLen(addition) > FULL_DETAIL_LIMIT
          THEN [i |-> i, result |-> result]
          ELSE Phase1(commits, i + 1, result \o addition)

\* Phase 2 without the test against SUMMARY_ONLY_LIMIT
RECURSIVE Phase2_NoLimit(_, _, _)
Phase2_NoLimit(commits, i, result) ==
  IF i > Len(commits) THEN [i |-> i, result |-> result]
  ELSE LET addition == <<Piece("newline", 0, 1)>> \o formatCommitSummary(commits, i)
       IN Phase2_NoLimit(commits, i + 1, result \o addition)

\* Phase 2: summary lines while the text stays within SUMMARY_ONLY_LIMIT
RECURSIVE Phase2(_, _, _)
Phase2(commits, i, result) ==
  IF i > Len(commits) THEN [i |-> i, result |-> result]
  ELSE LET addition == <<Piece("newline", 0, 1)>> \o formatCommitSummary(commits, i)
       IN IF TextLen(result) + TextLen(addition) > SUMMARY_ONLY_LIMIT
          THEN [i |-> i, result |-> result]
          ELSE Phase2(commits, i + 1, result \o addition)

generatePRSummary(commits) ==
  LET
    \* '\n\n---\n*Remaining commits shown without details:*\n'
    RemainingHeader == <<Piece("header", 0, 49)>>
  IN
  LET p1 == Phase1(commits, 1, <<>>)
      r1 == IF p1.i <= Len(commits) THEN p1.result \o RemainingHeader ELSE p1.result
      p2 == Phase2(commits, p1.i, r1)
  IN IF p2.i <= Len(commits)
     THEN p2.result \o buildRemainderSuffix(commits, p2.i)
     ELSE p2.result

\* commits of the sizes that matter against the two limits
SummaryCommit(t, b, subj, raw, body, lines, blank) ==
  [type |-> t, breaking |-> b, subjectLen |-> subj, rawLen |-> raw,
   bodyLen |-> body, bodyLines |-> lines, bodyBlank |-> blank]

NoSummary == <<Piece("none", 0, 0)>>

SumIdle ==
  /\ sumCommits = <<>>
  /\ sumResult = NoSummary

SumStart ==
  LET
    SummaryShapes ==
      { SummaryCommit("feat", FALSE, 20, 26, 0, 0, FALSE),
        SummaryCommit("fix", FALSE, 20, 25, 3, 1, TRUE),
        SummaryCommit(NoType, FALSE, -1, 30, 120, 3, FALSE),
        SummaryCommit("feat", TRUE, 60, 67, 19000, 200, FALSE),
        SummaryCommit("chore", FALSE, 80, 87, 39000, 1, FALSE),
        SummaryCommit("fix", FALSE, 29000, 29005, 0, 0, FALSE),
        SummaryCommit("docs", FALSE, 70000, 70006, 50000, 500, FALSE) }
  IN
  /\ sumCommits \in SeqsUpTo(SummaryShapes, MaxSummaryCommits)
  /\ sumResult = NoSummary

GeneratePRSummary ==
  /\ sumResult = NoSummary
  /\ sumResult' = generatePRSummary(sumCommits)
  /\ UNCHANGED sumCommits
  /\ UNCHANGED notSum

----------------------------------------------------------------------------
(* Manifests: package.json and Cargo.toml as texts *)

NoField == "undefined"

\* A package.json text: how it is laid out and what it holds.
JsonText(ind, nl, ks, v) ==
  [indent |-> ind, newlineAtEnd |-> nl, keys |-> ks, version |-> v]

\* A Cargo.toml text: its line ending and its lines.
Header(n, c) == [kind |-> "header", name |-> n, comment |-> c]

VersionLine(q, v, t) == [kind |-> "version", quote |-> q, value |-> v, trailer |-> t]

InheritLine == [kind |-> "inherit"]

Other(t) == [kind |-> "other", text |-> t]

CargoText(e, ls) == [eol |-> e, lines |-> ls]

First(S) == CHOOSE x \in S : \A y \in S : x <= y

InheritObject == "{workspace: true}"

\* parseTOML(content)[table].version: a string, the object of
\* version.workspace = true, or undefined
TomlVersion(text, table) ==
  LET
    \* the table a line belongs to for the TOML parser: the last header before it
    TableAt(toml, i) ==
      LET
        Last(S) == CHOOSE x \in S : \A y \in S : y <= x
      IN
      LET hs == {k \in 1..(i - 1) : toml.lines[k].kind = "header"}
      IN IF hs = {} THEN "" ELSE toml.lines[Last(hs)].name
  IN
  LET vs == {i \in 1..Len(text.lines) :
               /\ text.lines[i].kind \in {"version", "inherit"}
               /\ TableAt(text, i) = table}
  IN IF vs = {} THEN NoField
     ELSE IF text.lines[First(vs)].kind = "inherit" THEN InheritObject
     ELSE text.lines[First(vs)].value

\* the loop of replaceVersionInSection from line i on
RECURSIVE ReplaceFrom(_, _, _, _, _, _)
ReplaceFrom(text, sectionName, newVersion, i, currentSection, replaced) ==
  LET
    \* line.match(/^(\s*version\s*=\s*)"[^"]*"(.*)$/): double quotes, and no
    \* carriage return left at the end of the line by split('\n')
    VersionMatch(toml, line) ==
      line.kind = "version" /\ line.quote = "double" /\ toml.eol = "lf"
  IN
  LET
    \* trimmed.match(/^\[([^\]]+)\]$/): a header with nothing after the bracket
    SectionMatch(line) == line.kind = "header" /\ ~line.comment
  IN
  IF i > Len(text.lines) THEN <<>>
  ELSE LET line == text.lines[i]
       IN IF SectionMatch(line)
          THEN <<line>> \o ReplaceFrom(text, sectionName, newVersion, i + 1,
                                       line.name, replaced)
          ELSE IF ~replaced /\ currentSection = sectionName /\ VersionMatch(text, line)
          THEN <<[line EXCEPT !.value = newVersion]>>
                 \o ReplaceFrom(text, sectionName, newVersion, i + 1,
                                currentSection, TRUE)
          ELSE <<line>> \o ReplaceFrom(text, sectionName, newVersion, i + 1,
                                       currentSection, replaced)

replaceVersionInSection(text, sectionName, newVersion) ==
  [text EXCEPT !.lines = ReplaceFrom(text, sectionName, newVersion, 1, "", FALSE)]

----------------------------------------------------------------------------
(* Discovery of packages *)

Found(n, v, e, f) == [name |-> n, version |-> v, ecosystem |-> e, file |-> f]

\* JavaScriptAdapter.discoverPackages: the workspace members, or else the root
discoverJs(files) ==
  IF Len(files) = 0 THEN <<>>
  ELSE IF Len(files) > 1
  THEN [k \in 1..(Len(files) - 1) |->
          Found("js", files[k + 1].version, "javascript", k + 1)]
  ELSE <<Found("js", IF files[1].version = NoField THEN "0.0.0" ELSE files[1].version,
               "javascript", 1)>>

\* RustAdapter.discoverPackages: the workspace members with their version
\* resolved, or else the root crate
discoverRust(files) ==
  LET
    HasTable(text, table) ==
      \E i \in 1..Len(text.lines) :
        text.lines[i].kind = "header" /\ text.lines[i].name = table
  IN
  IF Len(files) = 0 THEN <<>>
  ELSE LET workspaceVersion == TomlVersion(files[1], "workspace.package")
           memberVersion(f) ==
             LET v == TomlVersion(f, "package")
             IN IF v = InheritObject
                THEN (IF workspaceVersion = NoField THEN "0.0.0" ELSE workspaceVersion)
                ELSE IF v = NoField THEN "0.0.0" ELSE v
       IN IF Len(files) > 1
          THEN [k \in 1..(Len(files) - 1) |->
                  Found("crate", memberVersion(files[k + 1]), "rust", k + 1)]
          ELSE IF HasTable(files[1], "package")
          THEN <<Found("crate",
                       IF TomlVersion(files[1], "package") = NoField THEN "0.0.0"
                       ELSE TomlVersion(files[1], "package"), "rust", 1)>>
          ELSE <<>>

\* GoAdapter.discoverPackages: version '0.0.0', Go versions are git tags
discoverGo(files) ==
  [k \in 1..Len(files) |-> Found("module", "0.0.0", "go", k)]

\* discoverAllPackages(rootPath).detectedEcosystems: the types of the
\* adapters, in the order of ALL_ADAPTERS, whose detect reads its manifest
detectedEcosystems ==
  LET detect(type) ==
        CASE type = "javascript" -> Len(jsFiles) > 0
          [] type = "rust" -> Len(rustFiles) > 0
          [] type = "go" -> Len(goFiles) > 0
  IN SelectSeq(<<"javascript", "rust", "go">>, detect)

\* a plausible slip: the loop over the adapters ends at the first one detected
discoverAllPackages_FirstDetected ==
  IF Len(jsFiles) > 0 THEN discoverJs(jsFiles)
  ELSE IF Len(rustFiles) > 0 THEN discoverRust(rustFiles)
  ELSE discoverGo(goFiles)

\* discoverAllPackages(rootPath).packages
discoverAllPackages ==
  discoverJs(jsFiles) \o discoverRust(rustFiles) \o discoverGo(goFiles)

----------------------------------------------------------------------------
(* updateVersions of the adapters *)

\* JavaScriptAdapter.updateVersions: the root package.json and every
\* discovered package are parsed, set and written back
JsUpdateVersions(files, newVersion, pkgs) ==
  LET
    \* JSON.stringify(obj, null, 2) + '\n'
    JsonStringify(obj) ==
      [indent |-> 2, newlineAtEnd |-> TRUE, keys |-> obj.keys, version |-> obj.version]
  IN
  LET
    \* pkgJson.version = newVersion
    JsonSetVersion(obj, v) ==
      [keys |-> IF \E i \in 1..Len(obj.keys) : obj.keys[i] = "version"
                THEN obj.keys ELSE Append(obj.keys, "version"),
       version |-> v]
  IN
  LET
    \* JSON.parse(content): the keys in order and the values, the layout is gone
    JsonParse(text) == [keys |-> text.keys, version |-> text.version]
  IN
  [k \in 1..Len(files) |->
     IF k = 1 \/ \E i \in 1..Len(pkgs) :
                   pkgs[i].ecosystem = "javascript" /\ pkgs[i].file = k
     THEN JsonStringify(JsonSetVersion(JsonParse(files[k]), newVersion))
     ELSE files[k]]

\* RustAdapter.updateVersions on the root Cargo.toml
RustUpdateRoot(text, newVersion) ==
  LET r1 == IF TomlVersion(text, "workspace.package") # NoField
            THEN replaceVersionInSection(text, "workspace.package", newVersion)
            ELSE text
  IN IF TomlVersion(text, "package") \notin {NoField, InheritObject}
     THEN replaceVersionInSection(r1, "package", newVersion)
     ELSE r1

\* RustAdapter.updateVersions on the Cargo.toml of a member crate
RustUpdateMember(text, newVersion) ==
  IF TomlVersion(text, "package") \in {NoField, InheritObject} THEN text
  ELSE replaceVersionInSection(text, "package", newVersion)

RustUpdateVersions(files, newVersion, pkgs) ==
  IF ~\E i \in 1..Len(pkgs) : pkgs[i].ecosystem = "rust" THEN files
  ELSE [k \in 1..Len(files) |->
          IF k = 1 THEN RustUpdateRoot(files[1], newVersion)
          ELSE IF \E i \in 1..Len(pkgs) : pkgs[i].ecosystem = "rust" /\ pkgs[i].file = k
          THEN RustUpdateMember(files[k], newVersion)
          ELSE files[k]]

----------------------------------------------------------------------------
(* Workspaces on disk *)

CrateLines(header, version) ==
  <<header, Other("name"), version, Other(""), Header("dependencies", FALSE),
    Other("serde")>>

NotDiscovered == <<Found("none", NoField, "none", 0)>>

ManIdle ==
  /\ jsFiles = <<>>
  /\ rustFiles = <<>>
  /\ goFiles = <<>>
  /\ manBefore = [js |-> <<>>, rust |-> <<>>, go |-> <<>>]
  /\ manPkgs = NotDiscovered
  /\ manDetected = <<>>
  /\ manVersion = "0.0.0"
  /\ manPc = "idle"

ManStart ==
  LET
    GoWorkspaces == {<<>>, <<"module example.com/mod">>}
  IN
  LET
    RustWorkspaces ==
      LET
        CargoRoots ==
          { CargoText("lf", <<Header("workspace", FALSE), Other("members"),
                              Header("workspace.package", FALSE),
                              VersionLine("double", "1.0.0", "")>>),
            CargoText("lf", <<Header("workspace", FALSE), Other("members")>>),
            CargoText("lf", <<Header("workspace", FALSE), Other("members")>>
                              \o CrateLines(Header("package", FALSE),
                                            VersionLine("double", "1.0.0", ""))),
            CargoText("lf", <<Header("workspace.package", FALSE),
                              VersionLine("double", "1.0.0", "")>>
                              \o CrateLines(Header("package", FALSE), InheritLine)) }
      IN
      LET
        CargoMembers ==
          { CargoText("lf", CrateLines(Header("package", FALSE),
                                       VersionLine("double", "1.0.0", ""))),
            CargoText("lf", CrateLines(Header("package", FALSE),
                                       VersionLine("double", "1.0.0", "  # bumped by CI"))),
            CargoText("lf", CrateLines(Header("package", FALSE),
                                       VersionLine("single", "1.0.0", ""))),
            CargoText("crlf", CrateLines(Header("package", FALSE),
                                         VersionLine("double", "1.0.0", ""))),
            CargoText("lf", CrateLines(Header("package", TRUE),
                                       VersionLine("double", "1.0.0", ""))),
            CargoText("lf", CrateLines(Header("package", FALSE), InheritLine)),
            CargoText("lf", CrateLines(Header("package", FALSE), Other("edition"))) }
      IN
      {<<>>} \cup {<<root>> \o members :
                     root \in CargoRoots, members \in SeqsUpTo(CargoMembers, MaxMembers)}
  IN
  LET
    JsWorkspaces ==
      LET
        JsonTexts ==
          { JsonText(ind, nl, kv[1], kv[2]) :
              ind \in {2, 4}, nl \in BOOLEAN,
              kv \in { <<<<"name", "version", "private">>, "1.0.0">>,
                       <<<<"name", "private">>, NoField>> } }
      IN
      {<<>>} \cup {<<root>> \o members :
                     root \in JsonTexts, members \in SeqsUpTo(JsonTexts, MaxMembers)}
  IN
  /\ jsFiles \in JsWorkspaces
  /\ rustFiles \in {r \in RustWorkspaces : Len(jsFiles) <= 1 \/ Len(r) <= 1}
  /\ goFiles \in GoWorkspaces
  /\ manBefore = [js |-> jsFiles, rust |-> rustFiles, go |-> goFiles]
  /\ manPkgs = NotDiscovered
  /\ manDetected = <<>>
  /\ manVersion = "1.1.0"
  /\ manPc = "start"

\* discoverAllPackages(rootPath)
DiscoverAllPackages ==
  /\ manPc = "start"
  /\ manPkgs' = discoverAllPackages
  /\ manDetected' = detectedEcosystems
  /\ manPc' = "discovered"
  /\ UNCHANGED <<jsFiles, rustFiles, goFiles, manBefore, manVersion>>
  /\ UNCHANGED notMan

\* updateAllVersions(rootPath, newVersion, packages, adapters): each active
\* adapter's updateVersions in turn; the Go adapter's writes nothing
UpdateAllVersions ==
  /\ manPc = "discovered"
  /\ jsFiles' = JsUpdateVersions(jsFiles, manVersion, manPkgs)
  /\ rustFiles' = RustUpdateVersions(rustFiles, manVersion, manPkgs)
  /\ goFiles' = goFiles
  /\ manPc' = "updated"
  /\ UNCHANGED <<manBefore, manPkgs, manDetected, manVersion>>
  /\ UNCHANGED notMan

----------------------------------------------------------------------------
(* commits.ts: the packages of a commit.  A path is a sequence of name     *)
(* pieces and "/" separators; a directory name that continues another       *)
(* ("pkg-a" then "b" for pkg-ab) has it as a prefix, as its characters do.  *)

RepoPath == <<"/repo">>

\* the Set affectedPackages that becomes commit.packages
affectedPackages(repoPath, files, workspacePackages) ==
  LET \* file.startsWith(relativePkgPath)
      StartsWith(file, prefix) ==
        Len(prefix) <= Len(file) /\ SubSeq(file, 1, Len(prefix)) = prefix
      \* pkg.path.replace(repoPath + '/', ''): the first occurrence is removed
      Replace(path) ==
        LET pat == repoPath \o <<"/">>
            at == {k \in 1..(Len(path) - Len(pat) + 1) :
                     SubSeq(path, k, k + Len(pat) - 1) = pat}
        IN IF at = {} THEN path
           ELSE SubSeq(path, 1, First(at) - 1)
                  \o SubSeq(path, First(at) + Len(pat), Len(path))
      Affected(pkg) ==
        \E f \in 1..Len(files) :
          IF Replace(pkg.path) = pkg.path THEN TRUE
          ELSE StartsWith(files[f], Replace(pkg.path))
  IN {workspacePackages[i].name :
        i \in {j \in 1..Len(workspacePackages) : Affected(workspacePackages[j])}}

----------------------------------------------------------------------------
(* changelog.ts.  A changelog text is the sequence of its lines:           *)
(* [kind, arg] with kind "title" (`# Changelog` and what follows it),      *)
(* "version" (`## V (date)`), "heading" (`### ...`), "item" (`- ...` of the *)
(* commit with hash arg) and "prose".                                       *)

Line(kind, arg) == [kind |-> kind, arg |-> arg]

generateChangelogSection(newVersion, commits) ==
  LET knownTypes == {"feat", "fix", "perf", "test", "docs", "chore",
                     "refactor", "style", "build", "ci"}
      \* commits.filter(keep) rendered as `- text` lines
      Items(keep) ==
        LET F[i \in 0..Len(commits)] ==
              IF i = 0 THEN <<>>
              ELSE IF keep[i] THEN Append(F[i - 1], Line("item", commits[i].hash))
              ELSE F[i - 1]
        IN F[Len(commits)]
      Section(title, keep) ==
        IF Items(keep) = <<>> THEN <<>>
        ELSE <<Line("heading", title)>> \o Items(keep)
      OfType(t) == [i \in 1..Len(commits) |-> commits[i].type = t]
  IN <<Line("version", newVersion)>>
       \o Section("BREAKING CHANGES", [i \in 1..Len(commits) |-> commits[i].breaking])
       \o Section("Features", [i \in 1..Len(commits) |->
                                 commits[i].type = "feat" /\ ~commits[i].breaking])
       \o Section("Bug Fixes", OfType("fix"))
       \o Section("Performance Improvements", OfType("perf"))
       \o Section("Tests", OfType("test"))
       \o Section("Documentation", OfType("docs"))
       \o Section("Refactoring", OfType("refactor"))
       \o Section("Chores", OfType("chore"))
       \o Section("Styles", OfType("style"))
       \o Section("Build", OfType("build"))
       \o Section("CI", OfType("ci"))
       \o Section("Other", [i \in 1..Len(commits) |->
                              /\ ~commits[i].breaking
                              /\ (commits[i].type = NoType
                                    \/ commits[i].type \notin knownTypes)])

\* readFile of a path that does not exist throws
NoFile == [exists |-> FALSE, text |-> <<>>]

\* `# Changelog\n\n`
ChangelogTitle == Line("title", "lf lf")

\* a plausible slip: the length of the header is cut off whether or not the
\* file starts with it
generateChangelogs_AlwaysCuts(files, newVersion, commits, pkgs) ==
  LET commitsByPackage(name) ==
        LET Has(c) == name \in c.packages IN SelectSeq(commits, Has)
      Write(fs, pkg) ==
        LET packageCommits == commitsByPackage(pkg.name)
            read == fs[pkg.path]
            existingContent ==
              IF ~read.exists THEN <<>>
              ELSE IF Len(read.text) >= 1 THEN Tail(read.text)
              ELSE read.text
        IN IF packageCommits = <<>> THEN fs
           ELSE [fs EXCEPT ![pkg.path] =
                   [exists |-> TRUE,
                    text |-> <<ChangelogTitle>>
                               \o generateChangelogSection(newVersion, packageCommits)
                               \o existingContent]]
      loop[i \in 0..Len(pkgs)] ==
        IF i = 0 THEN files ELSE Write(loop[i - 1], pkgs[i])
  IN loop[Len(pkgs)]

\* a plausible slip: packages without commits are not skipped
generateChangelogs_NoSkip(files, newVersion, commits, pkgs) ==
  LET commitsByPackage(name) ==
        LET Has(c) == name \in c.packages IN SelectSeq(commits, Has)
      Write(fs, pkg) ==
        LET packageCommits == commitsByPackage(pkg.name)
            read == fs[pkg.path]
            existingContent ==
              IF ~read.exists THEN <<>>
              ELSE IF Len(read.text) >= 1 /\ read.text[1] = ChangelogTitle
              THEN Tail(read.text)
              ELSE read.text
        IN [fs EXCEPT ![pkg.path] =
              [exists |-> TRUE,
               text |-> <<ChangelogTitle>>
                          \o generateChangelogSection(newVersion, packageCommits)
                          \o existingContent]]
      loop[i \in 0..Len(pkgs)] ==
        IF i = 0 THEN files ELSE Write(loop[i - 1], pkgs[i])
  IN loop[Len(pkgs)]

\* the CHANGELOG.md files after generateChangelogs; the file of a package is
\* join(pkg.path, 'CHANGELOG.md'), one per package path
generateChangelogs(files, newVersion, commits, pkgs) ==
  LET \* groupCommitsByPackage(commits).get(name)
      commitsByPackage(name) ==
        LET Has(c) == name \in c.packages IN SelectSeq(commits, Has)
      \* one pass of the loop over the packages
      Write(fs, pkg) ==
        LET packageCommits == commitsByPackage(pkg.name)
            read == fs[pkg.path]
            \* existingContent.startsWith('# Changelog\n\n') ? substring : as read
            existingContent ==
              IF ~read.exists THEN <<>>
              ELSE IF Len(read.text) >= 1 /\ read.text[1] = ChangelogTitle
              THEN Tail(read.text)
              ELSE read.text
        IN IF packageCommits = <<>> THEN fs
           ELSE [fs EXCEPT ![pkg.path] =
                   [exists |-> TRUE,
                    text |-> <<ChangelogTitle>>
                               \o generateChangelogSection(newVersion, packageCommits)
                               \o existingContent]]
      loop[i \in 0..Len(pkgs)] ==
        IF i = 0 THEN files ELSE Write(loop[i - 1], pkgs[i])
  IN loop[Len(pkgs)]

\* the versions of the successive releases
ReleaseVersions == <<"1.1.0", "2.0.0">>

LogIdle ==
  /\ clPkgs = <<>>
  /\ clFiles = <<>>
  /\ clBefore = <<>>
  /\ clCommits = <<>>
  /\ clDone = 0
  /\ clPc = "idle"

\* a workspace and the changelogs already in it
LogStart ==
  LET At(dir) == RepoPath \o dir
      P(name, eco, path) == [name |-> name, ecosystem |-> eco, path |-> path]
      \* single package; two sibling members; a name shared by two
      \* ecosystems; two root manifests; a package and a crate
      Workspaces ==
        { <<P("app", "javascript", RepoPath)>>,
          <<P("pkg-a", "javascript", At(<<"/", "packages", "/", "pkg-a">>)),
            P("pkg-ab", "javascript", At(<<"/", "packages", "/", "pkg-a", "b">>))>>,
          <<P("core", "javascript", At(<<"/", "packages", "/", "pkg-a">>)),
            P("core", "rust", At(<<"/", "crates", "/", "core">>))>>,
          <<P("app", "javascript", RepoPath), P("lib", "rust", RepoPath)>>,
          <<P("pkg-a", "javascript", At(<<"/", "packages", "/", "pkg-a">>)),
            P("core", "rust", At(<<"/", "crates", "/", "core">>))>> }
      Old == <<Line("version", "1.0.0"), Line("heading", "Features"), Line("item", "h0")>>
      \* no file; an empty file; the tool's own output; the header alone; a
      \* header with CRLF line ends; a header followed by one newline; an
      \* introduction under the header; no header
      Texts ==
        { NoFile,
          [exists |-> TRUE, text |-> <<>>],
          [exists |-> TRUE, text |-> <<ChangelogTitle>> \o Old],
          [exists |-> TRUE, text |-> <<ChangelogTitle>>],
          [exists |-> TRUE, text |-> <<Line("title", "crlf crlf")>> \o Old],
          [exists |-> TRUE, text |-> <<Line("title", "lf")>> \o Old],
          [exists |-> TRUE, text |-> <<ChangelogTitle, Line("prose", "intro")>> \o Old],
          [exists |-> TRUE, text |-> Old] }
  IN
  /\ clPkgs \in Workspaces
  /\ clFiles \in {[p \in {clPkgs[i].path : i \in 1..Len(clPkgs)} |-> t] : t \in Texts}
  /\ clBefore = clFiles
  /\ clCommits = <<>>
  /\ clDone = 0
  /\ clPc = "start"

\* analyzeCommits on the commits since the last release: the CommitInfo of
\* each with the packages its files map to
AnalyzeFiles ==
  LET C(hash, type, breaking, files) ==
        [hash |-> hash, type |-> type, breaking |-> breaking, files |-> files]
      Shapes ==
        << C("h1", "feat", FALSE, << <<"README.md">> >>),
           C("h2", "fix", TRUE, << <<"packages", "/", "pkg-a", "/", "x">> >>),
           C("h3", NoType, FALSE, << <<"packages", "/", "pkg-a", "b", "/", "x">> >>),
           C("h4", "wip", TRUE, << <<"crates", "/", "core", "/", "x">> >>),
           C("h5", "feat", TRUE, <<>>),
           C("h6", "chore", FALSE, << <<"packages", "/", "pkg-a", "/", "x">>,
                                      <<"crates", "/", "core", "/", "x">> >>) >>
      Info(c) ==
        [hash |-> c.hash, type |-> c.type, breaking |-> c.breaking,
         files |-> c.files,
         packages |-> affectedPackages(RepoPath, c.files, clPkgs)]
      \* the chosen commits, in the order of the log
      Chosen(S) ==
        LET F[i \in 0..Len(Shapes)] ==
              IF i = 0 THEN <<>>
              ELSE IF i \in S THEN Append(F[i - 1], Info(Shapes[i]))
              ELSE F[i - 1]
        IN F[Len(Shapes)]
  IN
  /\ clPc \in {"start", "written"}
  /\ clDone < Len(ReleaseVersions)
  /\ \E S \in {T \in SUBSET (1..Len(Shapes)) : Cardinality(T) <= MaxLogCommits} :
       clCommits' = Chosen(S)
  /\ clPc' = "analyzed"
  /\ UNCHANGED <<clPkgs, clFiles, clBefore, clDone>>
  /\ UNCHANGED notLog

\* generateChangelogs(newVersion, commits, packages)
GenerateChangelogs ==
  /\ clPc = "analyzed"
  /\ clBefore' = clFiles
  /\ clFiles' = generateChangelogs(clFiles, ReleaseVersions[clDone + 1],
                                   clCommits, clPkgs)
  /\ clDone' = clDone + 1
  /\ clPc' = "written"
  /\ UNCHANGED <<clPkgs, clCommits>>
  /\ UNCHANGED notLog

ToolsIdle == WaitIdle /\ SumIdle /\ ManIdle /\ LogIdle

----------------------------------------------------------------------------
(* the CLI entry point: state of one run *)

Running == -1

RunQuiet ==
  /\ ci = "1"
  /\ githubToken = FALSE
  /\ headIsMerge = FALSE
  /\ mainPc = "idle"
  /\ exitCode = Running
  /\ effects = {}
  /\ stages = {}
  /\ runCommits = <<>>
  /\ runBump = NotCalculated

RunIdle == RunQuiet /\ runVersion = "0.0.0"

----------------------------------------------------------------------------
(* The repository and the two read operations on it *)

NotResolved == [done |-> FALSE, version |-> NoVersion, marker |-> 0, calls |-> 0]
NotAnalyzed == [done |-> FALSE, failed |-> FALSE, marker |-> 0, commits |-> <<>>]

RepoStart ==
  /\ history = <<"chore">>
  /\ tags = {}
  /\ singles = 0
  /\ bulks = 0
  /\ shallow = FALSE
  /\ resolved = NotResolved
  /\ analyzed = NotAnalyzed

InitRepo == RepoStart /\ BumpIdle /\ WsIdle /\ PubIdle /\ RunIdle /\ ToolsIdle

\* git commit -m <message of c>
GitCommit(c) ==
  /\ singles < MaxCommits
  /\ history' = Append(history, c)
  /\ singles' = singles + 1
  /\ resolved' = NotResolved
  /\ analyzed' = NotAnalyzed
  /\ UNCHANGED <<tags, bulks, shallow>>
  /\ UNCHANGED notRepo

\* a merge or push that brings n ordinary commits at once
GitBulk(n) ==
  LET
    \* the commit a bulk push repeats
    BulkKind == "chore"
  IN
  /\ bulks < MaxBulk
  /\ history' = history \o [i \in 1..n |-> BulkKind]
  /\ bulks' = bulks + 1
  /\ resolved' = NotResolved
  /\ analyzed' = NotAnalyzed
  /\ UNCHANGED <<tags, singles, shallow>>
  /\ UNCHANGED notRepo

\* git tag <t>
GitTag(t) ==
  /\ t \notin tags
  /\ Cardinality(tags) < MaxTags
  /\ tags' = tags \cup {t}
  /\ resolved' = NotResolved
  /\ analyzed' = NotAnalyzed
  /\ UNCHANGED <<history, singles, bulks, shallow>>
  /\ UNCHANGED notRepo

\* a plausible slip: the tags are fetched from the remote before they are read
ResolveCurrentVersion_FetchTags ==
  /\ resolved.calls < MaxResolves
  /\ tags' = tags \cup {"v190"}
  /\ resolved' = [done |-> TRUE,
                  version |-> resolveCurrentVersion(history, tags'),
                  marker |-> resolveReleaseCommit(history),
                  calls |-> resolved.calls + 1]
  /\ UNCHANGED <<history, singles, bulks, shallow, analyzed>>
  /\ UNCHANGED notRepo

\* resolveCurrentVersion(repoPath): the version and the commit it came from;
\* calls counts the invocations on the unchanged repository
ResolveCurrentVersion ==
  /\ resolved.calls < MaxResolves
  /\ resolved' = [done |-> TRUE,
                  version |-> resolveCurrentVersion(history, tags),
                  marker |-> resolveReleaseCommit(history),
                  calls |-> resolved.calls + 1]
  /\ UNCHANGED <<history, tags, singles, bulks, shallow, analyzed>>
  /\ UNCHANGED notRepo

\* analyzeCommits(repoPath, packages): throws on a shallow repository
AnalyzeCommits ==
  /\ ~analyzed.done
  /\ analyzed' = [done |-> TRUE,
                  failed |-> shallow,
                  marker |-> IF shallow THEN 0 ELSE analyzeReleaseCommit(history),
                  commits |-> IF shallow THEN <<>> ELSE analyzeCommits(history)]
  /\ UNCHANGED <<history, tags, singles, bulks, shallow, resolved>>
  /\ UNCHANGED notRepo

NextRepo ==
  LET
    TagNames == DOMAIN TagTable
  IN
  LET
    \* the commits that matter for finding the last release
    RangeKinds == {"rel", "choreRel", "relV", "scopeRel", "docsRel", "feat"}
  IN
  \/ \E c \in RangeKinds : GitCommit(c)
  \/ \E n \in {FirstStage, SecondStage} : GitBulk(n)
  \/ \E t \in TagNames : GitTag(t)
  \/ ResolveCurrentVersion
  \/ AnalyzeCommits

SpecRepo == InitRepo /\ [][NextRepo]_vars

\* commitAndPush(repoPath, newVersion, push): git commit -m `release: ${newVersion}`
CommitAndPush(newVersion) ==
  /\ singles < MaxCommits
  /\ history' = Append(history,
                        CHOOSE c \in DOMAIN CommitTable :
                          Message(c) = <<"release", ":", " ", newVersion>>)
  /\ singles' = singles + 1
  /\ resolved' = NotResolved
  /\ analyzed' = NotAnalyzed
  /\ UNCHANGED <<tags, bulks, shallow>>
  /\ UNCHANGED notRepo

\* the two read operations, repeated, on repositories the tool has released
NextRelease ==
  \/ \E c \in {"rel", "choreRel", "feat"} : GitCommit(c)
  \/ \E v \in {"1.1.0", "2.0.0"} : CommitAndPush(v)
  \/ GitBulk(FirstStage)
  \/ \E t \in {"v190", "plain200"} : GitTag(t)
  \/ ResolveCurrentVersion
  \/ AnalyzeCommits

SpecRelease == InitRepo /\ [][NextRelease]_vars

\* histories of every commit kind, for the classification of single commits
NextClassify ==
  LET
    CommitKinds == DOMAIN CommitTable
  IN
  \/ \E c \in CommitKinds : GitCommit(c)
  \/ AnalyzeCommits

SpecClassify == InitRepo /\ [][NextClassify]_vars

\* calculateVersionBump on drawn inputs
InitBump == BumpStart /\ RepoStart /\ WsIdle /\ PubIdle /\ RunIdle /\ ToolsIdle

NextBump == CalculateVersionBump

SpecBump == InitBump /\ [][NextBump]_vars

\* publishAllPackages on a drawn workspace
InitPublish ==
  LET
    \* versions publishAllPackages is called with
    PublishVersions == {"1.1.0", "2.0.0"}
  IN
  /\ RepoStart
  /\ BumpIdle
  /\ WsStart
  /\ RunQuiet
  /\ runVersion \in PublishVersions
  /\ ToolsIdle
  /\ pubPc = "loop"
  /\ pubIdx = 1
  /\ pubQueue = <<>>
  /\ pubPos = 1
  /\ pubWaited = FALSE
  /\ pubResults = <<>>
  /\ summaries = <<>>
  /\ execLog = <<>>
  /\ waitLog = <<>>

NextPublish ==
  \/ PublishSkipGo
  \/ PublishSkipPrereq
  \/ PublishSkipPrivate
  \/ PublishBegin
  \/ \E ok \in BOOLEAN : JsPublish(ok)
  \/ \E ok \in BOOLEAN : RustWait(ok)
  \/ \E ok \in BOOLEAN : RustPublish(ok)
  \/ PublishReturn

SpecPublish == InitPublish /\ [][NextPublish]_vars

\* RustAdapter.publishPackages on a drawn workspace of public crates
InitSort ==
  LET
    \* workspaces of four crates: diamonds in both discovery orders, a diamond
    \* on top of a cycle, a crate behind a cycle, a cycle of four
    FourCrates ==
      { <<Crate("a", Cargo({"b", "c"}, {}, {})), Crate("b", Cargo({"d"}, {}, {})),
          Crate("c", Cargo({"d"}, {}, {})), Crate("d", Cargo({}, {}, {}))>>,
        <<Crate("a", Cargo({}, {}, {"d"})), Crate("b", Cargo({"a"}, {}, {})),
          Crate("c", Cargo({"a", "serde"}, {}, {})), Crate("d", Cargo({"b", "c"}, {}, {}))>>,
        <<Crate("a", Cargo({"b", "c"}, {}, {})), Crate("b", Cargo({"d"}, {}, {})),
          Crate("c", Cargo({"d"}, {}, {})), Crate("d", Cargo({"d"}, {}, {}))>>,
        <<Crate("a", Cargo({"b"}, {}, {})), Crate("b", Cargo({"c"}, {}, {})),
          Crate("c", Cargo({"b"}, {}, {})), Crate("d", Cargo({}, {"serde"}, {}))>>,
        <<Crate("a", Cargo({"b"}, {}, {})), Crate("b", Cargo({"c"}, {}, {})),
          Crate("c", Cargo({"d"}, {}, {})), Crate("d", Cargo({"a"}, {}, {}))>> }
  IN
  LET
    \* workspaces of three crates a, b, c (in discovery order) with every choice
    \* of at most MaxDeps dependencies among themselves and the external serde
    ThreeCrates ==
      { <<Crate("a", Cargo(da, {}, dev)), Crate("b", Cargo(db, bb, {})),
          Crate("c", Cargo(dc, {}, {}))>> :
          da \in SubsetsUpTo({"a", "b", "c", "serde"}, MaxDeps),
          db \in SubsetsUpTo({"a", "b", "c", "serde"}, MaxDeps),
          dc \in SubsetsUpTo({"a", "b", "c"}, MaxDeps),
          bb \in {{}, {"a"}},
          dev \in {{}, {"b"}} }
  IN
  /\ RepoStart
  /\ BumpIdle
  /\ RunIdle
  /\ ToolsIdle
  /\ adapters = <<"rust">>
  /\ unreadable = {}
  /\ packages \in ThreeCrates \cup FourCrates
  /\ prereq = [e \in {"javascript", "rust"} |-> "ready"]
  /\ pubPc = "loop"
  /\ pubIdx = 1
  /\ pubQueue = <<>>
  /\ pubPos = 1
  /\ pubWaited = FALSE
  /\ pubResults = <<>>
  /\ summaries = <<>>
  /\ execLog = <<>>
  /\ waitLog = <<>>

NextSort ==
  \/ PublishBegin
  \/ \E ok \in BOOLEAN : RustWait(ok)
  \/ \E ok \in BOOLEAN : RustPublish(ok)
  \/ PublishReturn

SpecSort == InitSort /\ [][NextSort]_vars

\* one call of waitForCrateIndexed, with every sequence of answers
InitWait ==
  /\ RepoStart
  /\ BumpIdle
  /\ WsIdle
  /\ PubIdle
  /\ RunIdle
  /\ WaitStart
  /\ SumIdle
  /\ ManIdle
  /\ LogIdle

NextWait ==
  LET
    \* how long the registry takes to answer
    FetchTimes == {0, MaxFetchMs}
  IN
  LET
    FetchAnswers == {"ok", "notOk", "networkError"}
  IN
  \/ WaitCheck
  \/ WaitSleep
  \/ \E answer \in FetchAnswers, took \in FetchTimes : WaitFetch(answer, took)

\* timers and pending promises are always run by the event loop
SpecWait == InitWait /\ [][NextWait]_vars /\ WF_vars(NextWait)

\* generatePRSummary on drawn commit lists
InitSummary ==
  /\ RepoStart
  /\ BumpIdle
  /\ WsIdle
  /\ PubIdle
  /\ RunIdle
  /\ WaitIdle
  /\ SumStart
  /\ ManIdle
  /\ LogIdle

NextSummary == GeneratePRSummary

SpecSummary == InitSummary /\ [][NextSummary]_vars

\* discovery and version update on drawn workspaces
InitManifests ==
  /\ RepoStart
  /\ BumpIdle
  /\ WsIdle
  /\ PubIdle
  /\ RunIdle
  /\ WaitIdle
  /\ SumIdle
  /\ ManStart
  /\ LogIdle

NextManifests ==
  \/ DiscoverAllPackages
  \/ UpdateAllVersions

SpecManifests == InitManifests /\ [][NextManifests]_vars

\* attribution and changelogs over successive releases
InitChangelog ==
  /\ RepoStart /\ BumpIdle /\ WsIdle /\ PubIdle /\ RunIdle
  /\ WaitIdle /\ SumIdle /\ ManIdle
  /\ LogStart

NextChangelog ==
  \/ AnalyzeFiles
  \/ GenerateChangelogs

SpecChangelog == InitChangelog /\ [][NextChangelog]_vars

----------------------------------------------------------------------------
(* post-release.ts and the CLI entry point *)

\* detectPostRelease(cwd): HEAD is a release commit, or HEAD is a merge commit
\* one of whose parents is
detectPostRelease(h, merge) ==
  IF Len(h) = 0 THEN FALSE
  ELSE IF isReleaseCommit(Message(h[Len(h)])) THEN TRUE
  ELSE IF ~merge THEN FALSE
  ELSE \E k \in {Len(h) - 1, Len(h) - 2} : isReleaseCommit(Message(h[k]))

InitRun ==
  LET
    RunPrereqs ==
      { [e \in {"javascript", "rust"} |-> "ready"],
        [e \in {"javascript", "rust"} |->
           IF e = "javascript" THEN "token not set" ELSE "ready"] }
  IN
  LET
    \* workspaces a run is started in: <<javascript, rust, go>> packages
    RunWorkspaces ==
      { <<<<>>, <<>>, <<>>>>,
        <<<<Pkg("web", "javascript", FALSE, <<>>)>>, <<>>, <<>>>>,
        <<<<Pkg("web", "javascript", TRUE, <<>>)>>,
          <<Pkg("cli", "rust", FALSE, <<"core">>), Pkg("core", "rust", FALSE, <<>>)>>,
          <<Pkg("mod", "go", FALSE, <<>>)>>>> }
  IN
  LET
    RunKinds == {"rel", "feat", "chore"}
  IN
  /\ history \in SeqsUpTo(RunKinds, MaxRunCommits) \ {<<>>}
  /\ tags = {}
  /\ singles = 0
  /\ bulks = 0
  /\ shallow \in BOOLEAN
  /\ resolved = NotResolved
  /\ analyzed = NotAnalyzed
  /\ BumpIdle
  /\ \E w \in RunWorkspaces :
       /\ adapters = AdaptersOf(w[1], w[2], w[3])
       /\ packages = w[1] \o w[2] \o w[3]
  /\ prereq \in RunPrereqs
  /\ unreadable = {}
  /\ PubIdle
  /\ ToolsIdle
  /\ ci \in {"1", "unset"}
  /\ githubToken \in BOOLEAN
  /\ headIsMerge \in {m \in BOOLEAN : m => Len(history) >= 3}
  /\ mainPc = "start"
  /\ exitCode = Running
  /\ effects = {}
  /\ stages = {}
  /\ runVersion = "0.0.0"
  /\ runCommits = <<>>
  /\ runBump = NotCalculated

\* process.exit(code), or the end of main
Exit(code) ==
  /\ mainPc' = "exited"
  /\ exitCode' = code

\* if (await detectPostRelease(cwd)) { await runPostRelease(cwd); return; }
MainStart ==
  /\ mainPc = "start"
  /\ mainPc' = IF detectPostRelease(history, headIsMerge)
               THEN "postRelease" ELSE "detect"
  /\ UNCHANGED <<ci, githubToken, headIsMerge, exitCode, effects, stages,
                 runVersion, runCommits, runBump>>
  /\ UNCHANGED <<pubVars, notRun>>

\* runPostRelease up to the call of publishAllPackages
PostReleaseBegin(ok) ==
  /\ mainPc = "postRelease"
  /\ IF ~githubToken \/ packages = <<>> \/ ~ok
     THEN /\ Exit(1)
          /\ UNCHANGED <<runVersion, pubPc>>
     ELSE /\ runVersion' = resolveCurrentVersion(history, tags)
          /\ mainPc' = "publishing"
          /\ pubPc' = "loop"
          /\ UNCHANGED exitCode
  /\ UNCHANGED <<ci, githubToken, headIsMerge, effects, stages, runCommits, runBump>>
  /\ UNCHANGED <<pubIdx, pubQueue, pubPos, pubWaited, pubResults, summaries,
                 execLog, waitLog>>
  /\ UNCHANGED notRun

\* an exception out of publishAllPackages is not caught by runPostRelease or main
PostReleaseCrash ==
  /\ mainPc = "publishing"
  /\ pubPc = "thrown"
  /\ Exit(1)
  /\ UNCHANGED <<ci, githubToken, headIsMerge, effects, stages,
                 runVersion, runCommits, runBump>>
  /\ UNCHANGED <<pubVars, notRun>>

\* runPostRelease after publishAllPackages has returned
PostReleaseGitHub(ok) ==
  /\ mainPc = "publishing"
  /\ pubPc = "returned"
  /\ IF ok
     THEN /\ effects' = effects \cup {"ghRelease"}
          /\ Exit(IF hasPublishFailures(summaries) THEN 1 ELSE 0)
     ELSE /\ Exit(1)
          /\ UNCHANGED effects
  /\ UNCHANGED <<ci, githubToken, headIsMerge, stages, runVersion, runCommits, runBump>>
  /\ UNCHANGED <<pubVars, notRun>>

\* Step 1: detectWorkspace(cwd)
MainDetectWorkspace(ok) ==
  /\ mainPc = "detect"
  /\ IF packages = <<>> \/ ~ok
     THEN /\ Exit(1)
          /\ UNCHANGED <<runVersion, stages>>
     ELSE /\ runVersion' = resolveCurrentVersion(history, tags)
          /\ stages' = stages \cup {"workspace"}
          /\ mainPc' = "analyze"
          /\ UNCHANGED exitCode
  /\ UNCHANGED <<ci, githubToken, headIsMerge, effects, runCommits, runBump>>
  /\ UNCHANGED <<pubVars, notRun>>

\* Step 2: analyzeCommits(cwd, workspace.packages)
MainAnalyzeCommits(ok) ==
  /\ mainPc = "analyze"
  /\ IF shallow \/ ~ok
     THEN /\ Exit(1)
          /\ UNCHANGED <<runCommits, stages>>
     ELSE /\ runCommits' = analyzeCommits(history)
          /\ stages' = stages \cup {"commits"}
          /\ IF Len(analyzeCommits(history)) = 0
             THEN Exit(0)
             ELSE mainPc' = "bump" /\ UNCHANGED exitCode
  /\ UNCHANGED <<ci, githubToken, headIsMerge, effects, runVersion, runBump>>
  /\ UNCHANGED <<pubVars, notRun>>

\* Step 3 with the bump of none going on to the release steps
MainCalculateBump_IgnoresNone ==
  /\ mainPc = "bump"
  /\ LET r == calculateVersionBump(VerTuple(runVersion), runCommits)
     IN /\ runBump' = [done |-> TRUE, bumpType |-> r.bumpType,
                       newVersion |-> r.newVersion]
        /\ stages' = stages \cup {"bump"}
        /\ IF ci # "1"
           THEN Exit(0)
           ELSE mainPc' = "branch" /\ UNCHANGED exitCode
  /\ UNCHANGED <<ci, githubToken, headIsMerge, effects, runVersion, runCommits>>
  /\ UNCHANGED <<pubVars, notRun>>

\* Step 3: calculateVersionBump, then the exits for no bump and for dry-run
MainCalculateBump ==
  /\ mainPc = "bump"
  /\ LET r == calculateVersionBump(VerTuple(runVersion), runCommits)
     IN /\ runBump' = [done |-> TRUE, bumpType |-> r.bumpType,
                       newVersion |-> r.newVersion]
        /\ stages' = stages \cup {"bump"}
        /\ IF r.bumpType = NoBump \/ ci # "1"
           THEN Exit(0)
           ELSE mainPc' = "branch" /\ UNCHANGED exitCode
  /\ UNCHANGED <<ci, githubToken, headIsMerge, effects, runVersion, runCommits>>
  /\ UNCHANGED <<pubVars, notRun>>

\* one release step: it performs its effects and main goes on, or it throws
\* and the catch block exits with 1
ReleaseStep(done, next, ok) ==
  /\ IF ok
     THEN /\ effects' = effects \cup done
          /\ mainPc' = next
          /\ UNCHANGED exitCode
     ELSE /\ Exit(1)
          /\ UNCHANGED effects
  /\ UNCHANGED <<ci, githubToken, headIsMerge, stages, runVersion, runCommits, runBump>>
  /\ UNCHANGED <<pubVars, notRun>>

\* Step 4: createReleaseBranch(cwd)
MainCreateReleaseBranch(ok) ==
  /\ mainPc = "branch"
  /\ ReleaseStep({"branch"}, "changelog", ok)

\* Step 5: generateChangelogs(newVersion, commits, packages)
MainGenerateChangelogs(ok) ==
  /\ mainPc = "changelog"
  /\ ReleaseStep({"changelog"}, "versions", ok)

\* Step 6: updatePackageVersions(workspace, newVersion)
MainUpdatePackageVersions(ok) ==
  /\ mainPc = "versions"
  /\ ReleaseStep({"manifest"}, "commit", ok)

\* Step 7: commitAndPush(cwd, newVersion, true)
MainCommitAndPush(ok) ==
  /\ mainPc = "commit"
  /\ ReleaseStep({"commit", "push"}, "pr", ok)

\* Step 8: createOrUpdatePR, which needs GITHUB_TOKEN
MainCreatePR(ok) ==
  /\ mainPc = "pr"
  /\ IF githubToken /\ ok
     THEN /\ effects' = effects \cup {"pr"}
          /\ Exit(0)
     ELSE /\ Exit(1)
          /\ UNCHANGED effects
  /\ UNCHANGED <<ci, githubToken, headIsMerge, stages, runVersion, runCommits, runBump>>
  /\ UNCHANGED <<pubVars, notRun>>

NextRun ==
  \/ MainStart
  \/ \E ok \in BOOLEAN : PostReleaseBegin(ok)
  \/ PostReleaseCrash
  \/ \E ok \in BOOLEAN : PostReleaseGitHub(ok)
  \/ \E ok \in BOOLEAN : MainDetectWorkspace(ok)
  \/ \E ok \in BOOLEAN : MainAnalyzeCommits(ok)
  \/ MainCalculateBump
  \/ \E ok \in BOOLEAN : MainCreateReleaseBranch(ok)
  \/ \E ok \in BOOLEAN : MainGenerateChangelogs(ok)
  \/ \E ok \in BOOLEAN : MainUpdatePackageVersions(ok)
  \/ \E ok \in BOOLEAN : MainCommitAndPush(ok)
  \/ \E ok \in BOOLEAN : MainCreatePR(ok)
  \/ PublishSkipGo
  \/ PublishSkipPrereq
  \/ PublishSkipPrivate
  \/ PublishBegin
  \/ \E ok \in BOOLEAN : JsPublish(ok)
  \/ \E ok \in BOOLEAN : RustWait(ok)
  \/ \E ok \in BOOLEAN : RustPublish(ok)
  \/ PublishReturn

SpecRun == InitRun /\ [][NextRun]_vars

----------------------------------------------------------------------------
(* Reference notions used by the properties *)

Max(a, b) == IF a >= b THEN a ELSE b

\* the most recent release marker of the history, 0 if there is none
MostRecentMarker(h) ==
  LET ms == {i \in 1..Len(h) : isReleaseCommit(Message(h[i]))}
  IN IF ms = {} THEN 0 ELSE CHOOSE i \in ms : \A j \in ms : j <= i

\* semver precedence: numeric core, a prerelease precedes its release
SemverLess(a, b) ==
  LET x == VerTuple(a)
      y == VerTuple(b)
  IN \/ TupleLess(SubSeq(x, 1, 3), SubSeq(y, 1, 3))
     \/ /\ SubSeq(x, 1, 3) = SubSeq(y, 1, 3)
        /\ \/ x[4] # 0 /\ y[4] = 0
           \/ x[4] # 0 /\ y[4] # 0 /\ x[4] < y[4]

TagVersions(tg) == {TagMatch(t) : t \in {u \in tg : TagMatch(u) # NoVersion}}

SemverGreatest(vs) == CHOOSE v \in vs : \A w \in vs \ {v} : SemverLess(w, v)

\* one scan of the full history, newest first, then the tag fallback
FullScanVersion(h, tg) ==
  LET P == {hash \in 1..Len(h) : IsMarkerWithVersion(h, hash)}
      log == GitLogAll(h)
      hit == FirstFrom(log, 1, P)
      sorted == GitTagsSorted(tg)
      ok == {k \in 1..Len(sorted) : TagMatch(sorted[k]) # NoVersion}
  IN IF hit # 0 THEN extractVersionFromCommit(Message(h[log[hit]]))
     ELSE IF ok # {}
          THEN TagMatch(sorted[CHOOSE k \in ok : \A j \in ok : k <= j])
     ELSE "0.0.0"

\* the `!` of the conventional grammar type(scope)?!: subject
TypeHasBang(msg) ==
  /\ Len(msg) >= 3
  /\ msg[1] \in WordToks
  /\ \/ msg[2] = "!" /\ msg[3] = ":"
     \/ /\ msg[2] = "("
        /\ \E j \in 3..(Len(msg) - 2) :
             /\ msg[j] = ")"
             /\ \A k \in 3..(j - 1) : msg[k] \in ScopeToks
             /\ msg[j + 1] = "!"
             /\ msg[j + 2] = ":"

----------------------------------------------------------------------------
(* Properties *)

\* C1: resolveCurrentVersion returns the version of the most recent release
\* marker when the history has one, otherwise the semantically greatest
\* version tag, otherwise 0.0.0.
C1_ResolveContract ==
  resolved.done =>
    resolved.version =
      IF MostRecentMarker(history) # 0
      THEN extractVersionFromCommit(Message(history[MostRecentMarker(history)]))
      ELSE IF TagVersions(tags) # {} THEN SemverGreatest(TagVersions(tags))
      ELSE "0.0.0"

\* C2: the staged search (100, 1000, all) returns what one scan of the full
\* history returns.
C2_StagedEqualsFullScan ==
  resolved.done => resolved.version = FullScanVersion(history, tags)

\* C3: analyzeCommits returns, oldest first, exactly the commits strictly
\* newer than the most recent release marker, or all commits if none exists.
C3_RangeSinceMarker ==
  (analyzed.done /\ ~analyzed.failed) =>
    LET m == MostRecentMarker(history)
    IN /\ Len(analyzed.commits) = Len(history) - m
       /\ \A k \in 1..Len(analyzed.commits) : analyzed.commits[k].hash = m + k

\* C4: the commit at which analyzeCommits ends its range is the commit from
\* which resolveCurrentVersion takes the version.
C4_SameMarker ==
  (resolved.done /\ analyzed.done /\ ~analyzed.failed) =>
    analyzed.marker = resolved.marker

\* C6: a returned commit is breaking iff its header has `!` on the type or
\* its body has a BREAKING CHANGE footer.
C6_BreakingIff ==
  (analyzed.done /\ ~analyzed.failed) =>
    \A k \in 1..Len(analyzed.commits) :
      LET c == history[analyzed.commits[k].hash]
      IN analyzed.commits[k].breaking <=>
           (TypeHasBang(Message(c)) \/ HasBreakingNote(Body(c)))

\* the releases at `level` or coarser: the finer fields are zero
ReleasesAt(level) ==
  {<<a, b, c, 0>> : a \in 0..4, b \in 0..4, c \in 0..4} \cap
    {v \in Seq(0..4) : Len(v) = 4 /\
       (level = "major" => v[2] = 0 /\ v[3] = 0) /\
       (level = "minor" => v[3] = 0)}

\* semver precedence on parsed versions
SemverLessT(x, y) ==
  \/ TupleLess(SubSeq(x, 1, 3), SubSeq(y, 1, 3))
  \/ /\ SubSeq(x, 1, 3) = SubSeq(y, 1, 3)
     /\ \/ x[4] # 0 /\ y[4] = 0
        \/ x[4] # 0 /\ y[4] # 0 /\ x[4] < y[4]

\* v incremented at level: the next release of that level after v
IsIncrement(v, level, n) ==
  /\ n \in ReleasesAt(level)
  /\ SemverLessT(v, n)
  /\ \A c \in ReleasesAt(level) : SemverLessT(v, c) => ~SemverLessT(c, n)

BumpPriority ==
  LET any(P(_)) == \E i \in 1..Len(bumpCommits) : P(bumpCommits[i])
      brk(c) == c.breaking
      feat(c) == c.type = "feat"
      fix(c) == c.type \in {"fix", "perf"}
  IN /\ any(brk) => bumpResult.bumpType = "major"
     /\ (~any(brk) /\ any(feat)) => bumpResult.bumpType = "minor"
     /\ (~any(brk) /\ ~any(feat) /\ any(fix)) => bumpResult.bumpType = "patch"
     /\ (~any(brk) /\ ~any(feat) /\ ~any(fix)) => bumpResult.bumpType = NoBump

BumpNewVersion ==
  /\ bumpResult.bumpType = NoBump => bumpResult.newVersion = NoNewVersion
  /\ bumpResult.bumpType # NoBump =>
       IsIncrement(bumpVersion, bumpResult.bumpType, bumpResult.newVersion)
  /\ (bumpVersion[4] = 0 /\ bumpResult.bumpType = "major") =>
       bumpResult.newVersion = <<bumpVersion[1] + 1, 0, 0, 0>>
  /\ (bumpVersion[4] = 0 /\ bumpResult.bumpType = "minor") =>
       bumpResult.newVersion = <<bumpVersion[1], bumpVersion[2] + 1, 0, 0>>
  /\ (bumpVersion[4] = 0 /\ bumpResult.bumpType = "patch") =>
       bumpResult.newVersion = <<bumpVersion[1], bumpVersion[2], bumpVersion[3] + 1, 0>>

BumpRank(b) ==
  CASE b = NoBump -> 0 [] b = "patch" -> 1 [] b = "minor" -> 2 [] b = "major" -> 3

\* the bump the commits with a type trigger is not suppressed by the others
BumpNotSuppressed ==
  LET typed == SelectSeq(bumpCommits, LAMBDA c : c.type # NoType)
      r == calculateVersionBump(bumpVersion, typed)
  IN BumpRank(bumpResult.bumpType) >= BumpRank(r.bumpType)

\* C5 as stated: priority of the bump, new version, and commits with a null
\* type neither trigger a bump by themselves nor suppress one.
C5_BumpAsStated ==
  bumpResult.done =>
    /\ BumpPriority
    /\ BumpNewVersion
    /\ (\A i \in 1..Len(bumpCommits) : bumpCommits[i].type = NoType)
         => bumpResult.bumpType = NoBump
    /\ BumpNotSuppressed

\* C5 (amended): as stated, with "commits with a null type" read as the
\* commits with a null type that are not breaking.
C5_BumpContract ==
  bumpResult.done =>
    /\ BumpPriority
    /\ BumpNewVersion
    /\ (\A i \in 1..Len(bumpCommits) :
           bumpCommits[i].type = NoType /\ ~bumpCommits[i].breaking)
         => bumpResult.bumpType = NoBump
    /\ BumpNotSuppressed

\* 1.0.0 with a null-type commit, a feat and a fix has given minor, 1.1.0
C5_Witness ==
  /\ bumpResult.done
  /\ bumpVersion = <<1, 0, 0, 0>>
  /\ \E i \in 1..Len(bumpCommits) : bumpCommits[i].type = "feat"
  /\ \E i \in 1..Len(bumpCommits) :
       bumpCommits[i].type = NoType /\ ~bumpCommits[i].breaking
  /\ bumpResult.bumpType = "minor"
  /\ bumpResult.newVersion = <<1, 1, 0, 0>>

----------------------------------------------------------------------------
(* The run and its writes *)

Writes == {"branch", "changelog", "manifest", "commit", "push"}

AllStages == {"workspace", "commits", "bump"}

\* C7: in a live run a release branch, changelog, manifest, commit or push
\* exists only after workspace detection with version resolution, commit
\* analysis and bump calculation have all succeeded, on a full checkout, with
\* at least one commit since the last release and a bump other than none
C7_NoWriteBeforeBump ==
  (ci = "1" /\ effects \cap Writes # {}) =>
    /\ stages = AllStages
    /\ packages # <<>>
    /\ ~shallow
    /\ runVersion = resolveCurrentVersion(history, tags)
    /\ runCommits = analyzeCommits(history)
    /\ runCommits # <<>>
    /\ runBump.done
    /\ runBump.bumpType # NoBump
    /\ calculateVersionBump(VerTuple(runVersion), runCommits).bumpType # NoBump

\* a live run that has pushed a release commit and ended
C7_Witness ==
  /\ ci = "1"
  /\ mainPc = "exited"
  /\ {"branch", "changelog", "manifest", "commit", "push"} \subseteq effects

\* C8: with CI other than 1 no run creates a branch, writes a changelog or
\* manifest, commits, pushes, opens a pull request, publishes a package or
\* creates a GitHub release
C8_DryRunNoEffects ==
  ci # "1" =>
    /\ effects = {}
    /\ execLog = <<>>

----------------------------------------------------------------------------
(* Publishing *)

\* the publish commands executed for one ecosystem, in order
ExecsOf(a) == SelectSeq(execLog, LAMBDA e : e.ecosystem = a)

\* a list of outcomes (TRUE for success) with no failure before its last entry
FailureOnlyLast(oks) == \A i \in 1..(Len(oks) - 1) : oks[i]

\* C9: within one ecosystem, after a publish command has failed none is
\* executed for a later package: the executed commands and every returned
\* result list have at most one failure, in last place, and a result list is
\* the outcome of the commands executed for its ecosystem
C9_FailFast ==
  /\ \A a \in {"javascript", "rust"} :
       FailureOnlyLast([k \in 1..Len(ExecsOf(a)) |-> ExecsOf(a)[k].ok])
  /\ \A i \in 1..Len(summaries) :
       /\ FailureOnlyLast([k \in 1..Len(summaries[i].results) |->
                             summaries[i].results[k].success])
       /\ ~summaries[i].skipped =>
            summaries[i].results =
              [k \in 1..Len(ExecsOf(summaries[i].ecosystem)) |->
                 [packageName |-> ExecsOf(summaries[i].ecosystem)[k].name,
                  success |-> ExecsOf(summaries[i].ecosystem)[k].ok]]
  /\ \A k \in 1..Len(pubResults) : pubResults[k].success

\* an ecosystem whose publishPackages returned a failure with packages of its
\* order still unpublished
C9_Witness ==
  \E i \in 1..Len(summaries) :
    /\ ~summaries[i].skipped
    /\ ~summaries[i].results[Len(summaries[i].results)].success
    /\ Len(summaries[i].results) < Len(PublishOrder(summaries[i].ecosystem))

\* the summaries recorded for one ecosystem
SummariesOf(a) == SelectSeq(summaries, LAMBDA s : s.ecosystem = a)

\* C10: publishAllPackages is never aborted, and when it returns every
\* JavaScript or Rust ecosystem of the workspace has been dealt with: skipped
\* with its reason when its prerequisites are unmet, skipped when it has
\* nothing publishable, and attempted otherwise, whatever happened in the
\* ecosystems before it
C10_IndependentDomains ==
  /\ pubPc # "thrown"
  /\ pubPc = "returned" =>
       \A k \in 1..Len(adapters) :
         LET a == adapters[k]
         IN a # "go" =>
              /\ Len(SummariesOf(a)) = 1
              /\ prereq[a] # "ready" =>
                   /\ SummariesOf(a)[1].skipped
                   /\ SummariesOf(a)[1].skipReason = prereq[a]
              /\ (prereq[a] = "ready" /\ Publishable(a) # <<>>) =>
                   /\ ~SummariesOf(a)[1].skipped
                   /\ ExecsOf(a) # <<>>

\* a wait for the crate index has timed out
WaitTimedOut == \E i \in 1..Len(waitLog) : ~waitLog[i].ok

\* C11: a timeout of the wait after a successful Rust publish is not thrown
\* out of publishAllPackages; once publishAllPackages has returned it shows as
\* a failed result of the Rust ecosystem and in the verdict, and the
\* post-release run goes on to the GitHub release
C11_TimeoutAggregated ==
  WaitTimedOut =>
    /\ pubPc # "thrown"
    /\ pubPc = "returned" =>
         /\ hasPublishFailures(SummariesOf("rust"))
         /\ hasPublishFailures(summaries)
    /\ mainPc = "exited" => pubPc = "returned"

----------------------------------------------------------------------------
(* Publish order *)

\* the crates of the workspace that crate x of pkgs depends on
DepsIn(pkgs, x) ==
  {d \in SeqToSet(NamesOf(pkgs)) :
     \E i \in 1..Len(pkgs) : pkgs[i].name = x /\ d \in SeqToSet(pkgs[i].deps)}

\* the crates reached from the set S in one step or more, within k rounds
RECURSIVE ReachFrom(_, _, _)
ReachFrom(pkgs, S, k) ==
  LET step == UNION {DepsIn(pkgs, x) : x \in S}
  IN IF k = 0 THEN {} ELSE step \cup ReachFrom(pkgs, step, k - 1)

Reach(pkgs, x) == ReachFrom(pkgs, {x}, Len(pkgs))

\* x is part of a dependency cycle or depends, directly or not, on one
Unresolvable(pkgs, x) ==
  \E y \in {x} \cup Reach(pkgs, x) : y \in Reach(pkgs, y)

Position(q, n) == CHOOSE i \in 1..Len(q) : q[i] = n

\* C12: the publish order holds every crate exactly once, a crate that is
\* neither on nor behind a cycle comes after every workspace crate it depends
\* on (external and dev-only dependencies do not count), the crates on or
\* behind a cycle follow in discovery order, and the publish commands are
\* issued in this order
C12_PublishOrder ==
  LET pkgs == Publishable("rust")
      names == NamesOf(pkgs)
      out == topologicalSortCrates(pkgs)
      stuck == SelectSeq(names, LAMBDA n : Unresolvable(pkgs, n))
      execs == ExecsOf("rust")
  IN /\ Len(out) = Len(pkgs)
     /\ \A n \in SeqToSet(names) :
          Cardinality({i \in 1..Len(out) : out[i] = n}) = 1
     /\ \A n \in SeqToSet(names) :
          ~Unresolvable(pkgs, n) =>
            \A d \in DepsIn(pkgs, n) : Position(out, d) < Position(out, n)
     /\ SubSeq(out, Len(out) - Len(stuck) + 1, Len(out)) = stuck
     /\ Len(execs) <= Len(out)
     /\ \A k \in 1..Len(execs) : execs[k].name = out[k]

\* every crate was published, in a workspace with a cycle, with a crate that
\* has nothing to do with the cycle but depends on another crate, and with a
\* dev-only dependency that would close a second cycle
C12_Witness ==
  LET pkgs == Publishable("rust")
  IN /\ Len(ExecsOf("rust")) = Len(pkgs)
     /\ pubPc = "returned"
     /\ \E n \in SeqToSet(NamesOf(pkgs)) : Unresolvable(pkgs, n)
     /\ \E i \in 1..Len(pkgs) :
          /\ ~Unresolvable(pkgs, pkgs[i].name)
          /\ \E d \in DepsIn(pkgs, pkgs[i].name) :
               pkgs[i].name \in pkgs[Position(NamesOf(pkgs), d)].devDeps

\* C13: in the Rust publish loop every wait follows a successful publish of
\* the crate it waits for, at the version being released, so none precedes the
\* first publish or follows a failed one; and a crate other than the first is
\* published only after the wait for the crate before it has returned
C13_WaitBetweenPublishes ==
  LET execs == ExecsOf("rust")
  IN /\ Len(waitLog) <= Len(execs)
     /\ \A i \in 1..Len(waitLog) :
          /\ waitLog[i].name = execs[i].name
          /\ waitLog[i].version = runVersion
          /\ execs[i].ok
     /\ \A k \in 2..Len(execs) :
          /\ Len(waitLog) >= k - 1
          /\ waitLog[k - 1].ok
     /\ \A i \in 1..Len(execs) : ~execs[i].ok => Len(waitLog) < i

\* two crates published with one wait between them
C13_Witness ==
  /\ Len(ExecsOf("rust")) = 2
  /\ Len(waitLog) = 1
  /\ waitLog[1].ok
  /\ pubPc = "returned"

----------------------------------------------------------------------------
(* Waiting for the index *)

\* the delay before poll number k: 1 s doubled each time, at most 16 s
Backoff(k) ==
  IF k >= 5 THEN MAX_DELAY_MS
  ELSE INITIAL_DELAY_MS * (CASE k = 1 -> 1 [] k = 2 -> 2 [] k = 3 -> 4 [] k = 4 -> 8)

WaitEnded == waitPc \in {"returned", "thrown"}

\* what holds all along a call of waitForCrateIndexed
WaitSchedule ==
  /\ \A k \in 1..Len(waitDelays) : waitDelays[k] = Backoff(k)
  /\ waitPc = "returned" <=> waitAnswer = "ok"
  /\ waitPc = "thrown" => waitNow >= TIMEOUT_MS /\ waitAnswer # "ok"
  /\ (waitPc = "sleep" /\ waitDelays # <<>>) => waitAnswer \in {"notOk", "networkError"}
  /\ waitNow < TIMEOUT_MS + MAX_DELAY_MS + MaxFetchMs

\* C14: every call of waitForCrateIndexed ends; it returns exactly when a
\* poll answers OK, polls again after any other answer, sleeps 1 s before the
\* first poll and twice as long before each next one up to 16 s, and throws
\* only when 120 s have passed without an OK answer
C14_WaitEnds == []WaitSchedule /\ <>WaitEnded

\* a call that ended with the timeout error after polls at capped delay
C14_Witness ==
  /\ waitPc = "thrown"
  /\ Len(waitDelays) > 5
  /\ waitDelays[Len(waitDelays)] = MAX_DELAY_MS

----------------------------------------------------------------------------
(* What is handed to publishPackages *)

PkgNamed(n) == packages[CHOOSE i \in 1..Len(packages) : packages[i].name = n]

\* C15: every package handed to an adapter's publishPackages, and so every
\* package a publish command is run for, belongs to that adapter's ecosystem
\* and is not reported private (unreadable manifests count as private); an
\* ecosystem with met prerequisites and no such package gets one summary,
\* skipped with a reason, and no publish command
C15_OnlyPublishable ==
  /\ pubPc = "publishing" =>
       \A k \in 1..Len(pubQueue) :
         /\ PkgNamed(pubQueue[k]).ecosystem = adapters[pubIdx]
         /\ ~PkgNamed(pubQueue[k]).private
         /\ pubQueue[k] \notin unreadable
  /\ \A k \in 1..Len(execLog) :
       /\ PkgNamed(execLog[k].name).ecosystem = execLog[k].ecosystem
       /\ ~PkgNamed(execLog[k].name).private
       /\ execLog[k].name \notin unreadable
  /\ \A i \in 1..Len(summaries) :
       LET a == summaries[i].ecosystem
       IN (prereq[a] = "ready" /\
           \A k \in 1..Len(packages) :
             packages[k].ecosystem = a =>
               packages[k].private \/ packages[k].name \in unreadable)
          => /\ summaries[i].skipped
             /\ summaries[i].skipReason # ""
             /\ summaries[i].results = <<>>
             /\ ExecsOf(a) = <<>>

\* an ecosystem was published that has a package with an unreadable manifest
C15_Witness ==
  /\ pubPc = "returned"
  /\ \E k \in 1..Len(packages) :
       /\ packages[k].name \in unreadable
       /\ ~packages[k].private
       /\ ExecsOf(packages[k].ecosystem) # <<>>

----------------------------------------------------------------------------
(* The pull request summary *)

\* the full-detail rendering: every commit with its body, joined by blank lines
RECURSIVE FullDetail(_, _)
FullDetail(commits, i) ==
  IF i > Len(commits) THEN <<>>
  ELSE (IF i > 1 THEN <<Piece("blank", 0, 2)>> ELSE <<>>)
         \o <<Piece("line", i, 2 + HashLen + 2 + PrefixLen(commits[i])
                                 + DescriptionLen(commits[i]))>>
         \o (IF commits[i].bodyLen > 0 /\ ~commits[i].bodyBlank
             THEN <<Piece("body", i, 2 + commits[i].bodyLen + 2 * commits[i].bodyLines)>>
             ELSE <<>>)
         \o FullDetail(commits, i + 1)

HardBudget == 65536

\* C16: the text generatePRSummary returns is never longer than 65,536
C16_WithinBudget ==
  sumResult # NoSummary => TextLen(sumResult) <= HardBudget

\* a summary cut at both limits, from input longer than the budget
C16_Witness ==
  /\ sumResult # NoSummary
  /\ \E k \in 1..Len(sumResult) : sumResult[k].kind = "header"
  /\ sumResult[Len(sumResult)].kind = "suffix"
  /\ TextLen(sumResult) > FULL_DETAIL_LIMIT
  /\ TextLen(FullDetail(sumCommits, 1)) > HardBudget

\* C17: when the full-detail rendering of all commits is at most 40,000 long
\* the text returned is exactly that rendering, with no header of remaining
\* commits and no remainder line; no commits give the empty text
C17_FullDetailWhenSmall ==
  sumResult # NoSummary =>
    /\ TextLen(FullDetail(sumCommits, 1)) <= FULL_DETAIL_LIMIT =>
         /\ sumResult = FullDetail(sumCommits, 1)
         /\ \A k \in 1..Len(sumResult) : sumResult[k].kind \notin {"header", "suffix"}
    /\ sumCommits = <<>> => sumResult = <<>>

\* several commits, one of them with a body, rendered in full within the limit
C17_Witness ==
  /\ sumResult # NoSummary
  /\ Len(sumCommits) >= 2
  /\ TextLen(FullDetail(sumCommits, 1)) <= FULL_DETAIL_LIMIT
  /\ TextLen(sumResult) > 19000
  /\ \E k \in 1..Len(sumResult) : sumResult[k].kind = "body"

----------------------------------------------------------------------------
(* Manifests after discovery and after the version update *)

\* line b is line a but for the value of the version
SameButVersion(a, b) ==
  \/ a = b
  \/ a.kind = "version" /\ b.kind = "version" /\ [a EXCEPT !.value = b.value] = b

\* C18: after updateVersions every package.json and Cargo.toml is the text it
\* was, but for the value of the version field: same indentation, same end of
\* file, same keys in the same order, same lines and line endings
C18_FormatPreserving ==
  manPc = "updated" =>
    /\ \A k \in 1..Len(jsFiles) :
         /\ jsFiles[k].indent = manBefore.js[k].indent
         /\ jsFiles[k].newlineAtEnd = manBefore.js[k].newlineAtEnd
         /\ jsFiles[k].keys = manBefore.js[k].keys
    /\ \A k \in 1..Len(rustFiles) :
         /\ rustFiles[k].eol = manBefore.rust[k].eol
         /\ Len(rustFiles[k].lines) = Len(manBefore.rust[k].lines)
         /\ \A i \in 1..Len(rustFiles[k].lines) :
              SameButVersion(manBefore.rust[k].lines[i], rustFiles[k].lines[i])

\* C19: every package discovery returns has a version that is a string
C19_ConcreteVersions ==
  manPc \in {"discovered", "updated"} =>
    \A i \in 1..Len(manPkgs) : manPkgs[i].version \notin {NoField, InheritObject}

\* the version a crate has: its own, or the workspace's when it inherits
CrateVersion(files, k) ==
  IF TomlVersion(files[k], "package") = InheritObject
  THEN TomlVersion(files[1], "workspace.package")
  ELSE TomlVersion(files[k], "package")

\* C20: after updateAllVersions every discovered JavaScript package and Rust
\* crate has the new version, in its manifest or through the workspace
\* version it inherits, and the go.mod files are as they were
C20_AllSynchronized ==
  manPc = "updated" =>
    /\ \A i \in 1..Len(manPkgs) :
         /\ manPkgs[i].ecosystem = "javascript" =>
              jsFiles[manPkgs[i].file].version = manVersion
         /\ manPkgs[i].ecosystem = "rust" =>
              CrateVersion(rustFiles, manPkgs[i].file) = manVersion
    /\ goFiles = manBefore.go

----------------------------------------------------------------------------
----------------------------------------------------------------------------
----------------------------------------------------------------------------
(* Changelogs and attribution *)

\* the file at path p was written by the last generateChangelogs
Written(p) == clFiles[p] # clBefore[p]

\* the commits of the last analysis that name the package
CommitsNaming(pkg) ==
  {c \in 1..Len(clCommits) : pkg.name \in clCommits[c].packages}

\* what was in a changelog under its `# Changelog` header
BodyOf(text) ==
  IF Len(text) >= 1 /\ text[1] = ChangelogTitle THEN Tail(text) ELSE text

\* C21: a changelog that existed before generateChangelogs is either left as
\* it was, or is its former body, unchanged, under a header and the sections
\* of the new version only
C21_PrependOnly ==
  clPc = "written" =>
    \A p \in DOMAIN clFiles :
      clBefore[p].exists =>
        LET old == BodyOf(clBefore[p].text)
            new == clFiles[p].text
            above == SubSeq(new, 1, Len(new) - Len(old))
        IN \/ clFiles[p] = clBefore[p]
           \/ /\ Len(old) < Len(new)
              /\ SubSeq(new, Len(new) - Len(old) + 1, Len(new)) = old
              /\ above[1].kind = "title"
              /\ \A k \in 2..Len(above) :
                   /\ above[k].kind \in {"version", "heading", "item"}
                   /\ above[k].kind = "version" =>
                        above[k].arg = ReleaseVersions[clDone]

\* the second release written on top of the first and of what was there
C21_Witness ==
  /\ clPc = "written"
  /\ clDone = 2
  /\ \E p \in DOMAIN clFiles :
       /\ Written(p)
       /\ \E k \in 1..Len(clBefore[p].text) :
            clBefore[p].text[k] = Line("version", "1.0.0")
       /\ \E k \in 1..Len(clBefore[p].text) :
            clBefore[p].text[k] = Line("version", "1.1.0")

\* C22: a changelog generateChangelogs has written has one top-level
\* heading, in its first line, directly followed by the version sections,
\* newest first
C22_SingleTitle ==
  clPc = "written" =>
    \A p \in DOMAIN clFiles :
      Written(p) =>
        LET t == clFiles[p].text
        IN /\ t[1].kind = "title"
           /\ Cardinality({k \in 1..Len(t) : t[k].kind = "title"}) = 1
           /\ t[2].kind = "version"
           /\ \A j, k \in 1..Len(t) :
                (j < k /\ t[j].kind = "version" /\ t[k].kind = "version") =>
                  ~TupleLess(VerTuple(t[j].arg), VerTuple(t[k].arg))

\* C23: generateChangelogs writes the changelog of a package exactly when a
\* commit of the analysis names the package, and a written changelog has no
\* version section without entries
C23_WritesIffAttributed ==
  clPc = "written" =>
    \A i \in 1..Len(clPkgs) :
      /\ Written(clPkgs[i].path) <=> CommitsNaming(clPkgs[i]) # {}
      /\ Written(clPkgs[i].path) =>
           LET t == clFiles[clPkgs[i].path].text
           IN \A k \in 1..Len(t) :
                t[k].kind = "version" => (k < Len(t) /\ t[k + 1].kind = "heading")

\* one package written and another left alone in the same release
C23_Witness ==
  /\ clPc = "written"
  /\ \E i, j \in 1..Len(clPkgs) :
       /\ CommitsNaming(clPkgs[i]) # {}
       /\ Written(clPkgs[i].path)
       /\ CommitsNaming(clPkgs[j]) = {}
       /\ clFiles[clPkgs[j].path] = clBefore[clPkgs[j].path]

\* the package's root relative to the repository
RelativeRoot(pkg) == SubSeq(pkg.path, Len(RepoPath) + 2, Len(pkg.path))

\* some changed path of the commit starts with the given path
SomeFileUnder(commit, prefix) ==
  \E f \in 1..Len(commit.files) :
    /\ Len(prefix) <= Len(commit.files[f])
    /\ SubSeq(commit.files[f], 1, Len(prefix)) = prefix

\* C24: a package at the repository root is attributed every commit that
\* changes a file; any other package is attributed a commit exactly when a
\* changed path starts with the package's root relative to the repository
C24_Attribution ==
  \A c \in 1..Len(clCommits) : \A i \in 1..Len(clPkgs) :
    (clPkgs[i].name \in clCommits[c].packages) <=>
      IF clPkgs[i].path = RepoPath
      THEN clCommits[c].files # <<>>
      ELSE SomeFileUnder(clCommits[c], RelativeRoot(clPkgs[i]))

\* C29: a commit is attributed to a package that is not at the root only if
\* one of its changed files lies inside the package's directory
C29_InsideDirectory ==
  \A c \in 1..Len(clCommits) : \A i \in 1..Len(clPkgs) :
    (clPkgs[i].path # RepoPath /\ clPkgs[i].name \in clCommits[c].packages) =>
      SomeFileUnder(clCommits[c], RelativeRoot(clPkgs[i]) \o <<"/">>)

\* the section a commit belongs in
SectionOf(commit) ==
  IF commit.breaking THEN "BREAKING CHANGES"
  ELSE CASE commit.type = "feat" -> "Features"
         [] commit.type = "fix" -> "Bug Fixes"
         [] commit.type = "chore" -> "Chores"
         [] OTHER -> "Other"

\* the version section on top of a changelog: its lines after the `## V` line
TopSection(text) ==
  LET next == {k \in 3..Len(text) : text[k].kind \in {"version", "title", "prose"}}
  IN SubSeq(text, 3, IF next = {} THEN Len(text) ELSE First(next) - 1)

\* C28: in the version section generateChangelogSection renders, every
\* commit passed in has exactly one entry, under BREAKING CHANGES if it is
\* breaking, else under the heading of its type, else under Other
C28_OneSectionEach ==
  clPc = "written" =>
    \A i \in 1..Len(clPkgs) :
      (Written(clPkgs[i].path)
         /\ \A j \in (i + 1)..Len(clPkgs) : clPkgs[j].path # clPkgs[i].path) =>
        LET sec == TopSection(clFiles[clPkgs[i].path].text)
            HeadingAt(k) ==
              LET hs == {h \in 1..k : sec[h].kind = "heading"}
              IN sec[CHOOSE h \in hs : \A g \in hs : g <= h].arg
        IN /\ \A c \in CommitsNaming(clPkgs[i]) :
                /\ Cardinality({k \in 1..Len(sec) :
                                  sec[k] = Line("item", clCommits[c].hash)}) = 1
                /\ \A k \in 1..Len(sec) :
                     sec[k] = Line("item", clCommits[c].hash) =>
                       HeadingAt(k) = SectionOf(clCommits[c])
           /\ \A k \in 1..Len(sec) :
                sec[k].kind = "item" =>
                  \E c \in CommitsNaming(clPkgs[i]) : sec[k].arg = clCommits[c].hash

----------------------------------------------------------------------------
\* the packages of one ecosystem among those discovery returned
PackagesOf(type) ==
  LET OfType(pkg) == pkg.ecosystem = type IN SelectSeq(manPkgs, OfType)

\* C25: discovery returns, for every ecosystem, exactly the packages its
\* adapter discovers in the manifests present, tagged with that ecosystem,
\* and detectedEcosystems lists exactly the ecosystems whose root manifest
\* is present
C25_AllEcosystems ==
  manPc \in {"discovered", "updated"} =>
    /\ PackagesOf("javascript") = discoverJs(manBefore.js)
    /\ PackagesOf("rust") = discoverRust(manBefore.rust)
    /\ PackagesOf("go") = discoverGo(manBefore.go)
    /\ \A i \in 1..Len(manPkgs) : manPkgs[i].ecosystem \in {"javascript", "rust", "go"}
    /\ manDetected =
         (IF manBefore.js # <<>> THEN <<"javascript">> ELSE <<>>)
           \o (IF manBefore.rust # <<>> THEN <<"rust">> ELSE <<>>)
           \o (IF manBefore.go # <<>> THEN <<"go">> ELSE <<>>)

\* a repository with the manifests of all three ecosystems, discovered
C25_Witness ==
  /\ manPc = "discovered"
  /\ manDetected = <<"javascript", "rust", "go">>
  /\ \A type \in {"javascript", "rust", "go"} : PackagesOf(type) # <<>>

----------------------------------------------------------------------------
\* C27: in a post-release run that has the token and whose GitHub call does
\* not fail, the release is created or updated only after publishAllPackages
\* has made all its attempts, it is created whether or not a publish failed,
\* and the exit status is a failure exactly when a publish result is one
C27_PostRelease ==
  /\ "ghRelease" \in effects => pubPc = "returned"
  /\ (/\ mainPc = "exited"
      /\ detectPostRelease(history, headIsMerge)
      /\ pubPc # "idle"
      /\ ~(pubPc = "returned" /\ "ghRelease" \notin effects)) =>
       /\ "ghRelease" \in effects
       /\ exitCode = 1 <=> hasPublishFailures(summaries)

====
